---- MODULE Spec2Model ----
(***************************************************************************)
(* Frontegg webhook service: the invitedToTenant reconciliation handler    *)
(* (app/api/webhooks/frontegg/route.ts, final variant) together with the   *)
(* identity platform it calls, as a state machine.                         *)
(*                                                                         *)
(* Text is a sequence of one-character strings; identifiers that the code  *)
(* only compares for equality (event keys, user ids, tenant ids, webhook   *)
(* secrets) are TLA+ strings.  A missing header, environment variable or   *)
(* JSON field is the empty sequence <<>>, a present one is <<value>>.      *)
(***************************************************************************)
EXTENDS Naturals, Sequences, FiniteSets

VARIABLES
    env,              \* process.env, fixed for the life of the process
    tenants,          \* platform: tenantId -> name of the existing tenants
    member,           \* platform: tenantId -> set of user ids
    disabled,         \* platform: tenantId -> set of user ids disabled there
    assigned,         \* platform: tenants the default application is assigned to
    firstJoiner,      \* history: first user of each tenant this service created
    vendorTokenCache, \* module-level cache slot: <<>> or <<[token, expiresAt]>>
    now,              \* Date.now(), in hours
    pc,               \* per request: the await the handler is suspended at
    req,              \* per request: the inbound request (header, body)
    ev,               \* per request: what extractEvent returned
    tenant,           \* per request: the resolved target tenant id
    refreshAt,        \* per request: the Date.now() a token refresh started at
    calls,            \* per request: log of outbound calls <<op, status>>
    resp,             \* per request: response status, 0 while none
    parsed,           \* per request: JSON.parse was applied to the body
    snap,             \* history: user -> state left by its last 200 handling
    started,          \* number of requests delivered so far
    vin,              \* verification harness: <<header, secret>>
    vout              \* verification harness: results of the three verifiers

vars == <<env, tenants, member, disabled, assigned, firstJoiner, vendorTokenCache, now,
          pc, req, ev, tenant, refreshAt, calls, resp, parsed, snap, started,
          vin, vout>>

----------------------------------------------------------------------------
(* Bounds *)

MaxRequests == 2       \* deliveries per behaviour, handled concurrently
MaxSeqRequests == 3    \* deliveries per behaviour, handled one at a time
MaxCreated == 2        \* tenants the platform lets this service create
MaxNow == 6            \* last clock value (hours)
MaxInvocations == 2    \* times one wrapper is invoked for the same pair
MaxAcquires == 3       \* calls of getVendorToken per behaviour

(* Program constant: VENDOR_TOKEN_TTL_MS = 6 * 60 * 60 * 1000, in hours *)
VENDOR_TOKEN_TTL == 6

----------------------------------------------------------------------------
(* Text helpers *)

Uppers == <<"A","B","C","D","E","F","G","H","I","J","K","L","M",
            "N","O","P","Q","R","S","T","U","V","W","X","Y","Z">>
Lowers == <<"a","b","c","d","e","f","g","h","i","j","k","l","m",
            "n","o","p","q","r","s","t","u","v","w","x","y","z">>

\* A character outside ASCII is written as the name of its code point:
\* "U+00C9" is E with acute, "U+00E9" its small form, "U+00DF" sharp s,
\* "U+0130" I with dot above, "U+0307" the combining dot above.  The letters
\* of the model are the ASCII letters and these.

\* String.prototype.toLowerCase / toUpperCase of one character, as text: the
\* mappings follow Unicode and may give more than one character
LowerChar(c) ==
    IF \E i \in 1..Len(Uppers) : Uppers[i] = c
    THEN <<Lowers[CHOOSE i \in 1..Len(Uppers) : Uppers[i] = c]>>
    ELSE IF c = "U+00C9" THEN <<"U+00E9">>
    ELSE IF c = "U+0130" THEN <<"i", "U+0307">>
    ELSE <<c>>

UpperChar(c) ==
    IF \E i \in 1..Len(Lowers) : Lowers[i] = c
    THEN <<Uppers[CHOOSE i \in 1..Len(Lowers) : Lowers[i] = c]>>
    ELSE IF c = "U+00E9" THEN <<"U+00C9">>
    ELSE IF c = "U+00DF" THEN <<"S", "S">>
    ELSE <<c>>

RECURSIVE toLowerCase(_)
toLowerCase(s) ==
    IF s = <<>> THEN s ELSE LowerChar(Head(s)) \o toLowerCase(Tail(s))

\* Index of the first occurrence of character c in s, 0 when there is none
IndexOf(s, c) ==
    IF \E i \in 1..Len(s) : s[i] = c
    THEN CHOOSE i \in 1..Len(s) : s[i] = c /\ \A j \in 1..(i-1) : s[j] # c
    ELSE 0

\* s.split(c)[0]
SplitFirst(s, c) ==
    IF IndexOf(s, c) = 0 THEN s ELSE SubSeq(s, 1, IndexOf(s, c) - 1)

\* s.split(c)[1] as an optional: <<>> is undefined
SplitSecond(s, c) ==
    IF IndexOf(s, c) = 0 THEN <<>>
    ELSE <<SplitFirst(SubSeq(s, IndexOf(s, c) + 1, Len(s)), c)>>

\* The characters trim removes: WhiteSpace and LineTerminator of ECMAScript
\* (tab, LF, VT, FF, CR, space, no-break space, the Unicode space separators,
\* line and paragraph separator, byte order mark)
WhiteSpace ==
    {"\t", "\n", "U+000B", "\f", "\r", " ", "U+00A0", "U+1680", "U+2000",
     "U+2001", "U+2002", "U+2003", "U+2004", "U+2005", "U+2006", "U+2007",
     "U+2008", "U+2009", "U+200A", "U+2028", "U+2029", "U+202F", "U+205F",
     "U+3000", "U+FEFF"}

IsSpace(c) == c \in WhiteSpace

\* String.prototype.trim
RECURSIVE trim(_)
trim(s) ==
    IF s = <<>> THEN s
    ELSE IF IsSpace(s[1]) THEN trim(Tail(s))
    ELSE IF IsSpace(s[Len(s)]) THEN trim(SubSeq(s, 1, Len(s) - 1))
    ELSE s

\* needle occurs in hay as a contiguous run (the platform's free-text filter)
Contains(hay, needle) ==
    \E i \in 0..(Len(hay) - Len(needle)) :
        SubSeq(hay, i + 1, i + Len(needle)) = needle

Unknown == <<"u","n","k","n","o","w","n">>

\* Mutant: the domain keeps the case it is written in
domainFromEmail_KeepCase(email) ==
    LET part == SplitSecond(email, "@")
    IN  IF part = <<>> \/ part[1] = <<>> THEN Unknown ELSE part[1]

\* email.split('@')[1]?.toLowerCase() || 'unknown'
domainFromEmail(email) ==
    LET part == SplitSecond(email, "@")
    IN  IF part = <<>> \/ part[1] = <<>> THEN Unknown ELSE toLowerCase(part[1])

\* label = domain.split('.')[0] || domain; capitalise the first character
labelFromDomain(domain) ==
    LET first == SplitFirst(domain, ".")
        label == IF first = <<>> THEN domain ELSE first
    IN  IF label = <<>> THEN label
        ELSE UpperChar(label[1]) \o Tail(label)

\* The characters the '.' of a regular expression does not match
LineTerminators == {"\n", "\r", "U+2028", "U+2029"}

\* domain.replace(/\..*/, ''): the first '.' and what follows it up to the
\* next line terminator are removed
ReplaceFromDot(domain) ==
    LET dot == IndexOf(domain, ".")
        ends == {j \in (dot + 1)..Len(domain) : domain[j] \in LineTerminators}
        stop == IF ends = {} THEN Len(domain) + 1
                ELSE CHOOSE j \in ends : \A k \in ends : j <= k
    IN  IF dot = 0 THEN domain
        ELSE SubSeq(domain, 1, dot - 1) \o SubSeq(domain, stop, Len(domain))

\* domainToTenantName of src/app
domainToTenantName(email) ==
    LET part == SplitSecond(email, "@")
        domain == IF part = <<>> THEN Unknown ELSE toLowerCase(part[1])
        firstLabel == SplitFirst(domain, ".")
        pretty == IF Len(firstLabel) > 2 THEN firstLabel
                  ELSE ReplaceFromDot(domain)
    IN  IF pretty = <<>> THEN pretty
        ELSE UpperChar(pretty[1]) \o Tail(pretty)

----------------------------------------------------------------------------
(* Signature verification *)

\* An optional identifier (header, environment variable) is present and
\* non-empty: JavaScript truthiness of  string | null | undefined
TruthyId(opt) == opt # <<>> /\ opt[1] # ""

\* x || ''
OrEmpty(opt) == IF opt = <<>> THEN "" ELSE opt[1]

\* The signed tokens of the model and the key each one was signed with
JwtSigningKey(token) ==
    CASE token = "jwt.k1" -> <<"k1">>
      [] token = "jwt.k2" -> <<"k2">>
      [] token = "jwt.K1" -> <<"K1">>
      [] OTHER -> <<>>

\* jwt.verify(header, secret) returns (TRUE) or throws (FALSE)
jwtVerify(header, secret) ==
    header # "" /\ secret # "" /\ JwtSigningKey(header) = <<secret>>

\* Mutant: the emptiness guard is dropped
verifySecret_NoGuard(header, secret) ==
    \/ OrEmpty(header) = OrEmpty(secret)
    \/ jwtVerify(OrEmpty(header), OrEmpty(secret))

\* Mutant: the pre-shared-key comparison is dropped
verifySecret_JwtOnly(header, secret) ==
    /\ OrEmpty(header) # "" /\ OrEmpty(secret) # ""
    /\ jwtVerify(OrEmpty(header), OrEmpty(secret))

\* verifySecret of the final handler: PSK equality, then signed token
verifySecret(header, secret) ==
    LET h == OrEmpty(header)
        s == OrEmpty(secret)
    IN  IF h = "" \/ s = "" THEN FALSE
        ELSE IF h = s THEN TRUE
        ELSE jwtVerify(h, s)

\* verifyWebhook of the earlier handler: Boolean(incoming) && incoming === expected
verifyWebhook(header, secret) ==
    OrEmpty(header) # "" /\ OrEmpty(header) = OrEmpty(secret)

\* verifyWebhook of src/app: incoming && expected && incoming === expected,
\* whose value the caller negates
routeVerifyWebhook(header, secret) ==
    OrEmpty(header) # "" /\ OrEmpty(secret) # "" /\ OrEmpty(header) = OrEmpty(secret)

----------------------------------------------------------------------------
(* Inbound payloads: the JSON tree of a request body *)

InvitedKey == "frontegg.user.invitedToTenant"
SignedUpKey == "frontegg.user.signedUp"
OtherKey == "frontegg.user.deleted"

\* A JSON field holding an identifier: absent, a string, or another type
NoId == [t |-> "absent", v |-> ""]
IdV(s) == [t |-> "str", v |-> s]
NumId == [t |-> "num", v |-> ""]

\* A JSON field holding text
NoText == [t |-> "absent", v |-> <<>>]
TextV(s) == [t |-> "str", v |-> s]
NumText == [t |-> "num", v |-> <<>>]

NoContext ==
    [t |-> "absent", tenantId |-> NoId, userId |-> NoId, applicationId |-> NoId]
ContextOfApp(tid, uid, app) ==
    [t |-> "obj", tenantId |-> tid, userId |-> uid, applicationId |-> app]
Context(tid, uid) == ContextOfApp(tid, uid, NoId)

NoUser == [t |-> "absent", id |-> NoId, email |-> NoText]
User(id, email) == [t |-> "obj", id |-> id, email |-> email]

\* A parsed body: t is the JSON type of the top-level value
Payload(k, ek, ctx, u) ==
    [t |-> "obj", key |-> k, eventKey |-> ek, eventContext |-> ctx, user |-> u]
NonObject(type) ==
    [t |-> type, key |-> NoId, eventKey |-> NoId,
     eventContext |-> NoContext, user |-> NoUser]

\* payload && typeof payload === 'object'  (an array is an object too)
IsObject(j) == j.t \in {"obj", "arr"}

\* typeof x === 'string' ? x : undefined
StringOf(j) == IF j.t = "str" THEN <<j.v>> ELSE <<>>

\* a ?? b on optionals
Coalesce(a, b) == IF a # <<>> THEN a ELSE b

\* extractEvent of the final handler: eventKey, eventContext and user only
extractEvent(payload) ==
    LET obj == IF IsObject(payload) THEN payload ELSE NonObject("obj")
        hasContext == IsObject(obj.eventContext)
        hasUser == IsObject(obj.user)
        userIdFromContext ==
            IF hasContext THEN StringOf(obj.eventContext.userId) ELSE <<>>
        userIdFromUser == IF hasUser THEN StringOf(obj.user.id) ELSE <<>>
    IN  [key |-> OrEmpty(StringOf(obj.eventKey)),
         userId |-> Coalesce(userIdFromContext, userIdFromUser),
         email |-> IF hasUser /\ obj.user.email.t = "str"
                   THEN <<trim(obj.user.email.v)>> ELSE <<>>,
         prehookTenantName |-> <<>>,
         tenantId |-> IF hasContext THEN StringOf(obj.eventContext.tenantId)
                      ELSE <<>>]

NoEvent ==
    [key |-> "", userId |-> <<>>, email |-> <<>>, prehookTenantName |-> <<>>,
     tenantId |-> <<>>]

\* Optional text is present and non-empty
TruthyText(opt) == opt # <<>> /\ opt[1] # <<>>

\* prehookTenantName || labelFromDomain(domainFromEmail(email))
tenantNameOf(e) ==
    IF TruthyText(e.prehookTenantName) THEN e.prehookTenantName[1]
    ELSE labelFromDomain(domainFromEmail(e.email[1]))

----------------------------------------------------------------------------
(* The finite world: users, tenants, requests, environments *)

Slots == {1, 2}                \* handler invocations that can be in flight
Users == {"u1", "u2"}
SrcTenant == "t0"              \* the holding tenant
IdPool == <<"t1", "t2", "t3", "t4">>   \* ids the platform gives new tenants
AllTenantIds == {SrcTenant} \cup {IdPool[i] : i \in 1..Len(IdPool)}

EmailA == <<"x", "@", "a", ".", "i", "o">>
EmailASpaced == <<" ", "x", "@", "a", ".", "i", "o", " ">>
EmailB == <<"y", "@", "B", ".", "i", "o">>
Blank == <<" ">>

\* Names the holding tenant may carry
SrcNames == {<<"H">>, <<"A">>, <<"A", "b">>}

Body(j) == [parses |-> TRUE, json |-> j]
BadJson == [parses |-> FALSE, json |-> NonObject("null")]

Invited(tid, uidCtx, uidUser, email) ==
    Body(Payload(NoId, IdV(InvitedKey), Context(tid, uidCtx), User(uidUser, email)))

\* The same, raised in the context of an application
InvitedInApp(tid, uidCtx, uidUser, email, app) ==
    Body(Payload(NoId, IdV(InvitedKey), ContextOfApp(tid, uidCtx, app),
                 User(uidUser, email)))

\* Events that pass every filter
FullBodies ==
    { InvitedInApp(IdV(SrcTenant), IdV("u1"), IdV("u1"), TextV(EmailA), IdV("app1")),
      InvitedInApp(IdV(SrcTenant), IdV("u2"), IdV("u2"), TextV(EmailASpaced),
                   IdV("app2")),
      Invited(IdV(SrcTenant), IdV("u1"), NoId, TextV(EmailB)),
      Invited(IdV(SrcTenant), NoId, IdV("u2"), TextV(EmailB)),
      Invited(IdV(SrcTenant), NoId, NumId, TextV(EmailA)),
      Invited(IdV(SrcTenant), IdV(""), IdV("u1"), TextV(EmailA)) }

\* Events some filter stops
FilteredBodies ==
    { Body(NonObject("null")),
      Body(NonObject("arr")),
      Body(Payload(NoId, IdV(SignedUpKey), Context(IdV(SrcTenant), IdV("u1")),
                   User(IdV("u1"), TextV(EmailA)))),
      Body(Payload(NoId, IdV(OtherKey), Context(IdV(SrcTenant), IdV("u1")),
                   User(IdV("u1"), TextV(EmailA)))),
      Body(Payload(IdV(InvitedKey), NoId, Context(IdV(SrcTenant), IdV("u1")),
                   User(IdV("u1"), TextV(EmailA)))),
      Body(Payload(NoId, IdV(InvitedKey), NoContext, User(IdV("u1"), TextV(EmailA)))),
      Invited(IdV("t9"), IdV("u1"), IdV("u1"), TextV(EmailA)),
      Invited(IdV(""), IdV("u1"), IdV("u1"), TextV(EmailA)),
      Invited(IdV(SrcTenant), IdV("u1"), IdV("u1"), NoText),
      Invited(IdV(SrcTenant), IdV("u1"), IdV("u1"), NumText),
      Invited(IdV(SrcTenant), IdV("u1"), IdV("u1"), TextV(Blank)) }

Bodies == FullBodies \cup FilteredBodies \cup {BadJson}

Request(h, b) == [header |-> h, body |-> b]
NoRequest == Request(<<>>, BadJson)

\* Deliveries: every body under the pre-shared key, a few under a signed
\* token, under a wrong key, under an empty header and without the header
Requests ==
    {Request(<<"k1">>, b) : b \in Bodies}
    \cup {Request(h, b) :
            h \in {<<"jwt.k1">>, <<"jwt.k2">>, <<"k2">>, <<"">>, <<>>},
            b \in {BadJson, Invited(IdV(SrcTenant), IdV("u1"), IdV("u1"), TextV(EmailA)),
                   Body(Payload(NoId, IdV(OtherKey), NoContext, NoUser))}}

\* Deliveries that are handled concurrently
ConcurrentRequests ==
    {Request(<<"k1">>, b) :
        b \in { Invited(IdV(SrcTenant), IdV("u1"), IdV("u1"), TextV(EmailA)),
                Invited(IdV(SrcTenant), IdV("u2"), IdV("u2"), TextV(EmailASpaced)),
                Invited(IdV(SrcTenant), NoId, IdV("u2"), TextV(EmailB)) }}
    \cup {Request(<<"k2">>, BadJson)}

\* process.env
BaseEnv ==
    [FRONTEGG_WEBHOOK_SECRET |-> <<"k1">>,
     DEFAULT_SRC_TENANT_ID |-> <<SrcTenant>>,
     DEFAULT_APP_ID |-> <<"app1">>,
     DRY_RUN |-> <<>>,
     FRONTEGG_CLIENT_ID |-> <<"cid">>,
     FRONTEGG_API_KEY |-> <<"key">>]

Envs ==
    { BaseEnv,
      [BaseEnv EXCEPT !.DEFAULT_APP_ID = <<>>],
      [BaseEnv EXCEPT !.FRONTEGG_WEBHOOK_SECRET = <<>>],
      [BaseEnv EXCEPT !.DEFAULT_SRC_TENANT_ID = <<>>],
      [BaseEnv EXCEPT !.DRY_RUN = <<"1">>],
      [BaseEnv EXCEPT !.DRY_RUN = <<"true">>],
      [BaseEnv EXCEPT !.FRONTEGG_API_KEY = <<>>] }

\* const DRY_RUN = process.env.DRY_RUN === '1'
DRY_RUN(e) == e.DRY_RUN = <<"1">>

----------------------------------------------------------------------------
(* Handler helpers *)

platformVars == <<tenants, member, disabled, assigned, firstJoiner>>
cacheVars == <<vendorTokenCache>>
harnessVars == <<vin, vout>>

\* Response.ok
Ok(status) == status \in 200..299

\* Mutant: dry-run mode is not looked at
filterStatus_NoDryRun(e, environment) ==
    IF e.key # InvitedKey THEN 204
    ELSE IF ~TruthyId(environment.DEFAULT_SRC_TENANT_ID) THEN 500
    ELSE IF ~TruthyId(e.tenantId) THEN 400
    ELSE IF e.tenantId[1] # environment.DEFAULT_SRC_TENANT_ID[1] THEN 204
    ELSE IF ~TruthyText(e.email) THEN 200
    ELSE 0

\* Mutant: the tenant-scoping comparison is dropped
filterStatus_NoTenantFilter(e, environment) ==
    IF e.key # InvitedKey THEN 204
    ELSE IF ~TruthyId(environment.DEFAULT_SRC_TENANT_ID) THEN 500
    ELSE IF ~TruthyId(e.tenantId) THEN 400
    ELSE IF ~TruthyText(e.email) THEN 200
    ELSE IF DRY_RUN(environment) THEN 200
    ELSE 0

\* Mutant: the payload's tenant id is looked at before the configuration
filterStatus_TenantIdFirst(e, environment) ==
    IF e.key # InvitedKey THEN 204
    ELSE IF ~TruthyId(e.tenantId) THEN 400
    ELSE IF ~TruthyId(environment.DEFAULT_SRC_TENANT_ID) THEN 500
    ELSE IF e.tenantId[1] # environment.DEFAULT_SRC_TENANT_ID[1] THEN 204
    ELSE IF ~TruthyText(e.email) THEN 200
    ELSE IF DRY_RUN(environment) THEN 200
    ELSE 0

\* The early returns of POST between extractEvent and the try block:
\* 0 when the event goes on to reconciliation, else the response status
filterStatus(e, environment) ==
    IF e.key # InvitedKey THEN 204
    ELSE IF ~TruthyId(environment.DEFAULT_SRC_TENANT_ID) THEN 500
    ELSE IF ~TruthyId(e.tenantId) THEN 400
    ELSE IF e.tenantId[1] # environment.DEFAULT_SRC_TENANT_ID[1] THEN 204
    ELSE IF ~TruthyText(e.email) THEN 200
    ELSE IF DRY_RUN(environment) THEN 200
    ELSE 0

\* items[0] ?? null of findTenantByName: json is [shape, list]
firstItem(json) ==
    LET itemsArray == IF json.shape \in {"array", "items"} THEN json.list ELSE <<>>
    IN  IF Len(itemsArray) > 0 THEN <<itemsArray[1]>> ELSE <<>>

Max(S) == CHOOSE x \in S : \A y \in S : y <= x
Min2(n) == IF n < 2 THEN n ELSE 2

\* Mutant: the returned items are counted before a total is looked at
isSecondOrLaterUserInTenant_ItemsFirst(payload) ==
    IF payload.shape = "array" THEN payload.items[1] >= 2
    ELSE IF payload.shape = "object"
    THEN IF payload.items # <<>> THEN payload.items[1] >= 2
         ELSE IF payload.totals # {} THEN Max(payload.totals) >= 2
         ELSE FALSE
    ELSE FALSE

\* The decision of isSecondOrLaterUserInTenant on the listing's JSON:
\* payload is [shape, items (optional length), totals (numeric total fields)]
isSecondOrLaterUserInTenant(payload) ==
    IF payload.shape = "array" THEN payload.items[1] >= 2
    ELSE IF payload.shape = "object"
    THEN IF payload.totals # {} THEN Max(payload.totals) >= 2
         ELSE IF payload.items # <<>> THEN payload.items[1] >= 2
         ELSE FALSE
    ELSE FALSE

\* What the platform answers to  GET users/v3?offset=0&limit=2  for a tenant
\* of n members
Listings(n) ==
    { [shape |-> "array", items |-> <<Min2(n)>>, totals |-> {}],
      [shape |-> "object", items |-> <<Min2(n)>>, totals |-> {}],
      [shape |-> "object", items |-> <<Min2(n)>>, totals |-> {n}] }

\* Tenants the free-text filter matches
Matching(name) == {t \in DOMAIN tenants : Contains(tenants[t], name)}

Created == Cardinality(DOMAIN tenants) - 1

\* A user's standing on the platform
UserState(mem, dis, u) ==
    [memberOf |-> {t \in AllTenantIds : u \in mem[t]},
     disabledIn |-> {t \in AllTenantIds : u \in dis[t]}]

Respond(r, status) ==
    /\ pc' = [pc EXCEPT ![r] = "done"]
    /\ resp' = [resp EXCEPT ![r] = status]

Goto(r, label) ==
    /\ pc' = [pc EXCEPT ![r] = label]
    /\ UNCHANGED resp

Log(r, op, status) ==
    calls' = [calls EXCEPT ![r] =
                Append(@, [op |-> op, status |-> status, body |-> <<>>])]

\* A call whose response body the handler reads
LogBody(r, op, status, body) ==
    calls' = [calls EXCEPT ![r] =
                Append(@, [op |-> op, status |-> status, body |-> <<body>>])]

\* The request of isSecondOrLaterUserInTenant: GET users/v3 with offset=0 and
\* limit=2, under the header frontegg-tenant-id
listRequest(tenantId) == [tenant |-> tenantId, offset |-> 0, limit |-> 2]

\* The listing call; body is <<>> or <<payload>>
LogList(r, tenantId, status, body) ==
    calls' = [calls EXCEPT ![r] =
                Append(@, [op |-> "list", status |-> status, body |-> body,
                           request |-> listRequest(tenantId)])]

\* After ensureAppAssigned: if (userId) { add ... } else 200
AfterAssign(r) ==
    IF TruthyId(ev[r].userId) THEN Goto(r, "add") ELSE Respond(r, 200)

\* After the tenant is resolved: ensureAppAssigned returns at once when no
\* DEFAULT_APP_ID is configured
AfterResolve(r) ==
    IF TruthyId(env.DEFAULT_APP_ID) THEN Goto(r, "assign") ELSE AfterAssign(r)

----------------------------------------------------------------------------------------------------------------------------------------
(* Initial states *)

IdleSlots(x) == [r \in Slots |-> x]

\* The process has started, the platform holds the holding tenant with every
\* user in it, no request is in flight
Fresh(environments, names) ==
    /\ env \in environments
    /\ \E n \in names : tenants = [t \in {SrcTenant} |-> n]
    /\ member = [t \in AllTenantIds |-> IF t = SrcTenant THEN Users ELSE {}]
    /\ disabled = [t \in AllTenantIds |-> {}]
    /\ assigned = {}
    /\ firstJoiner = [t \in AllTenantIds |-> ""]
    /\ vendorTokenCache = <<>>
    /\ now = 0
    /\ pc = IdleSlots("idle")
    /\ req = IdleSlots(NoRequest)
    /\ ev = IdleSlots(NoEvent)
    /\ tenant = IdleSlots("")
    /\ refreshAt = IdleSlots(0)
    /\ calls = IdleSlots(<<>>)
    /\ resp = IdleSlots(0)
    /\ parsed = IdleSlots(FALSE)
    /\ snap = [u \in Users |-> <<>>]
    /\ started = 0

Init ==
    /\ Fresh({BaseEnv}, {<<"H">>, <<"A">>})
    /\ vin = <<<<>>, <<>>>>
    /\ vout = <<>>

SeqInit ==
    /\ Fresh(Envs, SrcNames)
    /\ vin = <<<<>>, <<>>>>
    /\ vout = <<>>

----------------------------------------------------------------------------
(* Statuses the platform may answer besides the one its state dictates *)

AuthFaults == {401}
FindFaults == {500}
CreateFaults == {500}
AssignFaults == {404}
AddFaults == {404, 500}
RemoveFaults == {409, 500}
ListFaults == {500}
DisableFaults == {500}

----------------------------------------------------------------------------
(* The handler: one action per stretch of code between two awaits *)

\* Mutant: the body is parsed before the signature is checked
Arrive_ParseFirst(r, rq) ==
    /\ req' = [req EXCEPT ![r] = rq]
    /\ parsed' = [parsed EXCEPT ![r] = TRUE]
    /\ IF verifySecret(rq.header, env.FRONTEGG_WEBHOOK_SECRET)
       THEN Goto(r, "parse")
       ELSE Respond(r, 401)

\* POST is entered: if (!verifySecret(req)) return 401; then the body is read
Arrive(r, rq) ==
    /\ req' = [req EXCEPT ![r] = rq]
    /\ IF verifySecret(rq.header, env.FRONTEGG_WEBHOOK_SECRET)
       THEN Goto(r, "parse")
       ELSE Respond(r, 401)
    /\ UNCHANGED parsed

\* The framework routes a POST to the handler (lowest free invocation)
Deliver(r, requests, bound) ==
    /\ pc[r] = "idle"
    /\ \A q \in Slots : q < r => pc[q] # "idle"
    /\ started < bound
    /\ started' = started + 1
    /\ \E rq \in requests : Arrive(r, rq)
    /\ UNCHANGED <<env, platformVars, cacheVars, now, ev, tenant, refreshAt,
                   calls, snap, harnessVars>>

Receive(r) == Deliver(r, ConcurrentRequests, MaxRequests)

SeqReceive(r) ==
    /\ \A q \in Slots : pc[q] = "idle"
    /\ Deliver(r, Requests, MaxSeqRequests)

\* The bearer token the credential exchange hands out
VendorToken == "vendor-token"

\* Mutant: a session is still handed out at the instant it expires
TokenStart_HitAtExpiry(r) ==
    IF vendorTokenCache # <<>> /\ vendorTokenCache[1].expiresAt >= now
    THEN Goto(r, "find") /\ UNCHANGED refreshAt
    ELSE IF ~TruthyId(env.FRONTEGG_CLIENT_ID) \/ ~TruthyId(env.FRONTEGG_API_KEY)
    THEN Respond(r, 500) /\ UNCHANGED refreshAt
    ELSE Goto(r, "exchange") /\ refreshAt' = [refreshAt EXCEPT ![r] = now]

\* Mutant: the cache is never consulted
TokenStart_AlwaysRefresh(r) ==
    IF ~TruthyId(env.FRONTEGG_CLIENT_ID) \/ ~TruthyId(env.FRONTEGG_API_KEY)
    THEN Respond(r, 500) /\ UNCHANGED refreshAt
    ELSE Goto(r, "exchange") /\ refreshAt' = [refreshAt EXCEPT ![r] = now]

\* getVendorToken up to its fetch: cache hit, missing credentials, or refresh
TokenStart(r) ==
    IF vendorTokenCache # <<>> /\ vendorTokenCache[1].expiresAt > now
    THEN Goto(r, "find") /\ UNCHANGED refreshAt
    ELSE IF ~TruthyId(env.FRONTEGG_CLIENT_ID) \/ ~TruthyId(env.FRONTEGG_API_KEY)
    THEN Respond(r, 500) /\ UNCHANGED refreshAt
    ELSE Goto(r, "exchange") /\ refreshAt' = [refreshAt EXCEPT ![r] = now]

\* Mutant: every event kind is let through the kind filter
Parse_AnyKind(r) ==
    /\ pc[r] = "parse"
    /\ parsed' = [parsed EXCEPT ![r] = TRUE]
    /\ IF ~req[r].body.parses
       THEN Respond(r, 400) /\ UNCHANGED <<ev, refreshAt>>
       ELSE LET e == extractEvent(req[r].body.json)
                st == filterStatus([e EXCEPT !.key = InvitedKey], env)
            IN  /\ ev' = [ev EXCEPT ![r] = e]
                /\ IF st = 0 THEN TokenStart(r)
                   ELSE Respond(r, st) /\ UNCHANGED refreshAt
    /\ UNCHANGED <<env, platformVars, cacheVars, now, req, tenant, calls, snap,
                   started, harnessVars>>

\* Mutant: a body that is not JSON is acknowledged instead of refused
Parse_AckBadJson(r) ==
    /\ pc[r] = "parse"
    /\ parsed' = [parsed EXCEPT ![r] = TRUE]
    /\ IF ~req[r].body.parses
       THEN Respond(r, 200) /\ UNCHANGED <<ev, refreshAt>>
       ELSE LET e == extractEvent(req[r].body.json)
                st == filterStatus(e, env)
            IN  /\ ev' = [ev EXCEPT ![r] = e]
                /\ IF st = 0 THEN TokenStart(r)
                   ELSE Respond(r, st) /\ UNCHANGED refreshAt
    /\ UNCHANGED <<env, platformVars, cacheVars, now, req, tenant, calls, snap,
                   started, harnessVars>>

\* readJson, extractEvent, the filters, and getVendorToken up to its fetch
Parse(r) ==
    /\ pc[r] = "parse"
    /\ parsed' = [parsed EXCEPT ![r] = TRUE]
    /\ IF ~req[r].body.parses
       THEN Respond(r, 400) /\ UNCHANGED <<ev, refreshAt>>
       ELSE LET e == extractEvent(req[r].body.json)
                st == filterStatus(e, env)
            IN  /\ ev' = [ev EXCEPT ![r] = e]
                /\ IF st = 0 THEN TokenStart(r)
                   ELSE Respond(r, st) /\ UNCHANGED refreshAt
    /\ UNCHANGED <<env, platformVars, cacheVars, now, req, tenant, calls, snap,
                   started, harnessVars>>

\* An exchange answered 200 with a JSON object that carries no token
NoToken == [shape |-> "object", items |-> <<>>, totals |-> {}]

\* Mutant: a failed exchange empties the cache slot
TokenFinish_ClearOnFailure(r) ==
    /\ pc[r] = "exchange"
    /\ \/ /\ Log(r, "token", 200)
          /\ vendorTokenCache' =
                <<[token |-> VendorToken,
                   expiresAt |-> refreshAt[r] + VENDOR_TOKEN_TTL]>>
          /\ Goto(r, "find")
       \/ /\ LogBody(r, "token", 200, NoToken)
          /\ Respond(r, 500)
          /\ vendorTokenCache' = <<>>
       \/ /\ \E st \in AuthFaults : Log(r, "token", st)
          /\ Respond(r, 500)
          /\ vendorTokenCache' = <<>>
    /\ UNCHANGED <<env, platformVars, now, req, ev, tenant, refreshAt, parsed,
                   snap, started, harnessVars>>

\* getVendorToken from the exchange's response on
TokenFinish(r) ==
    /\ pc[r] = "exchange"
    /\ \/ /\ Log(r, "token", 200)
          /\ vendorTokenCache' =
                <<[token |-> VendorToken,
                   expiresAt |-> refreshAt[r] + VENDOR_TOKEN_TTL]>>
          /\ Goto(r, "find")
       \/ /\ LogBody(r, "token", 200, NoToken)
          /\ Respond(r, 500)
          /\ UNCHANGED cacheVars
       \/ /\ \E st \in AuthFaults : Log(r, "token", st)
          /\ Respond(r, 500)
          /\ UNCHANGED cacheVars
    /\ UNCHANGED <<env, platformVars, now, req, ev, tenant, refreshAt, parsed,
                   snap, started, harnessVars>>

\* Mutant: a failed lookup is tried a second time
Find_RetryOnce(r) ==
    /\ pc[r] = "find"
    /\ \/ /\ \E st \in FindFaults : Log(r, "find", st)
          /\ IF \A i \in 1..Len(calls[r]) : calls[r][i].op # "find"
             THEN Goto(r, "find")
             ELSE Respond(r, 500)
          /\ UNCHANGED tenant
       \/ /\ Log(r, "find", 200)
          /\ LET m == Matching(tenantNameOf(ev[r]))
             IN  \E list \in (IF m = {} THEN {<<>>} ELSE {<<t>> : t \in m}),
                    shape \in {"array", "items"} :
                    LET first == firstItem([shape |-> shape, list |-> list])
                    IN  IF first # <<>>
                        THEN /\ tenant' = [tenant EXCEPT ![r] = first[1]]
                             /\ AfterResolve(r)
                        ELSE /\ Goto(r, "create")
                             /\ UNCHANGED tenant
    /\ UNCHANGED <<env, platformVars, cacheVars, now, req, ev, refreshAt,
                   parsed, snap, started, harnessVars>>

\* Mutant: the lookup's result is ignored and a tenant is always created
Find_AlwaysCreate(r) ==
    /\ pc[r] = "find"
    /\ \/ /\ \E st \in FindFaults : Log(r, "find", st)
          /\ Respond(r, 500)
       \/ /\ Log(r, "find", 200)
          /\ Goto(r, "create")
    /\ UNCHANGED <<env, platformVars, cacheVars, now, req, ev, tenant, refreshAt,
                   parsed, snap, started, harnessVars>>

\* Mutant: a failed lookup is thrown past the catch block, and the handler
\* ends without a response
Find_FailureUncaught(r) ==
    /\ pc[r] = "find"
    /\ \/ /\ \E st \in FindFaults : Log(r, "find", st)
          /\ Goto(r, "thrown")
          /\ UNCHANGED tenant
       \/ /\ Log(r, "find", 200)
          /\ LET m == Matching(tenantNameOf(ev[r]))
             IN  \E list \in (IF m = {} THEN {<<>>} ELSE {<<t>> : t \in m}),
                    shape \in {"array", "items"} :
                    LET first == firstItem([shape |-> shape, list |-> list])
                    IN  IF first # <<>>
                        THEN /\ tenant' = [tenant EXCEPT ![r] = first[1]]
                             /\ AfterResolve(r)
                        ELSE /\ Goto(r, "create")
                             /\ UNCHANGED tenant
    /\ UNCHANGED <<env, platformVars, cacheVars, now, req, ev, refreshAt,
                   parsed, snap, started, harnessVars>>

\* findTenantByName, then found ?? createTenant
Find(r) ==
    /\ pc[r] = "find"
    /\ \/ /\ \E st \in FindFaults : Log(r, "find", st)
          /\ Respond(r, 500)
          /\ UNCHANGED tenant
       \/ /\ Log(r, "find", 200)
          /\ LET m == Matching(tenantNameOf(ev[r]))
             IN  \E list \in (IF m = {} THEN {<<>>} ELSE {<<t>> : t \in m}),
                    shape \in {"array", "items"} :
                    LET first == firstItem([shape |-> shape, list |-> list])
                    IN  IF first # <<>>
                        THEN /\ tenant' = [tenant EXCEPT ![r] = first[1]]
                             /\ AfterResolve(r)
                        ELSE /\ Goto(r, "create")
                             /\ UNCHANGED tenant
    /\ UNCHANGED <<env, platformVars, cacheVars, now, req, ev, refreshAt,
                   parsed, snap, started, harnessVars>>

\* Mutant: the platform answers a creation under an existing name with the
\* tenant that carries it
Create_ReuseName(r) ==
    /\ pc[r] = "create"
    /\ \/ /\ \E st \in CreateFaults : Log(r, "create", st)
          /\ Respond(r, 500)
          /\ UNCHANGED <<tenant, tenants>>
       \/ /\ Created < MaxCreated
          /\ Log(r, "create", 201)
          /\ LET same == {t \in DOMAIN tenants : tenants[t] = tenantNameOf(ev[r])}
                 id == IF same # {} THEN CHOOSE t \in same : TRUE
                       ELSE IdPool[Created + 1]
             IN  /\ tenants' = [t \in DOMAIN tenants \cup {id} |->
                                  IF t = id THEN tenantNameOf(ev[r]) ELSE tenants[t]]
                 /\ tenant' = [tenant EXCEPT ![r] = id]
          /\ AfterResolve(r)
    /\ UNCHANGED <<env, member, disabled, assigned, firstJoiner, cacheVars, now,
                   req, ev, refreshAt, parsed, snap, started, harnessVars>>

\* createTenant
Create(r) ==
    /\ pc[r] = "create"
    /\ \/ /\ \E st \in CreateFaults : Log(r, "create", st)
          /\ Respond(r, 500)
          /\ UNCHANGED <<tenant, tenants>>
       \/ /\ Created < MaxCreated
          /\ Log(r, "create", 201)
          /\ LET id == IdPool[Created + 1]
             IN  /\ tenants' = [t \in DOMAIN tenants \cup {id} |->
                                  IF t = id THEN tenantNameOf(ev[r]) ELSE tenants[t]]
                 /\ tenant' = [tenant EXCEPT ![r] = id]
          /\ AfterResolve(r)
    /\ UNCHANGED <<env, member, disabled, assigned, firstJoiner, cacheVars, now,
                   req, ev, refreshAt, parsed, snap, started, harnessVars>>

\* Mutant: an assignment answered 409 is reported as a failure
Assign_ConflictThrows(r) ==
    /\ pc[r] = "assign"
    /\ \/ /\ \E st \in AssignFaults : Log(r, "assign", st)
          /\ Respond(r, 500)
          /\ UNCHANGED assigned
       \/ /\ tenant[r] \in assigned
          /\ Log(r, "assign", 409)
          /\ Respond(r, 500)
          /\ UNCHANGED assigned
       \/ /\ tenant[r] \notin assigned
          /\ Log(r, "assign", 201)
          /\ assigned' = assigned \cup {tenant[r]}
          /\ AfterAssign(r)
    /\ UNCHANGED <<env, tenants, member, disabled, firstJoiner, cacheVars, now,
                   req, ev, tenant, refreshAt, parsed, snap, started, harnessVars>>

\* ensureAppAssigned with DEFAULT_APP_ID configured: ok and 409 return
Assign(r) ==
    /\ pc[r] = "assign"
    /\ \/ /\ \E st \in AssignFaults : Log(r, "assign", st)
          /\ Respond(r, 500)
          /\ UNCHANGED assigned
       \/ /\ tenant[r] \in assigned
          /\ Log(r, "assign", 409)
          /\ AfterAssign(r)
          /\ UNCHANGED assigned
       \/ /\ tenant[r] \notin assigned
          /\ Log(r, "assign", 201)
          /\ assigned' = assigned \cup {tenant[r]}
          /\ AfterAssign(r)
    /\ UNCHANGED <<env, tenants, member, disabled, firstJoiner, cacheVars, now,
                   req, ev, tenant, refreshAt, parsed, snap, started, harnessVars>>

\* The platform's part of  POST users/v1/{userId}/tenant
PlatformAdd(t, u) ==
    /\ member' = [member EXCEPT ![t] = @ \cup {u}]
    /\ firstJoiner' =
          IF t # SrcTenant /\ firstJoiner[t] = ""
          THEN [firstJoiner EXCEPT ![t] = u] ELSE firstJoiner

\* Mutant: a failed attach is logged and the sequence carries on
Add_SwallowFailure(r) ==
    /\ pc[r] = "add"
    /\ LET u == ev[r].userId[1]
           t == tenant[r]
       IN  \/ /\ \E st \in AddFaults : Log(r, "add", st)
              /\ Goto(r, "remove")
              /\ UNCHANGED <<member, firstJoiner>>
           \/ /\ u \in member[t]
              /\ Log(r, "add", 409)
              /\ Goto(r, "remove")
              /\ UNCHANGED <<member, firstJoiner>>
           \/ /\ u \notin member[t]
              /\ Log(r, "add", 201)
              /\ PlatformAdd(t, u)
              /\ Goto(r, "remove")
    /\ UNCHANGED <<env, tenants, disabled, assigned, cacheVars, now, req, ev,
                   tenant, refreshAt, parsed, snap, started, harnessVars>>

\* addUserToTenantById: ok and 409 return, anything else throws
Add(r) ==
    /\ pc[r] = "add"
    /\ LET u == ev[r].userId[1]
           t == tenant[r]
       IN  \/ /\ \E st \in AddFaults : Log(r, "add", st)
              /\ Respond(r, 500)
              /\ UNCHANGED <<member, firstJoiner>>
           \/ /\ u \in member[t]
              /\ Log(r, "add", 409)
              /\ Goto(r, "remove")
              /\ UNCHANGED <<member, firstJoiner>>
           \/ /\ u \notin member[t]
              /\ Log(r, "add", 201)
              /\ PlatformAdd(t, u)
              /\ Goto(r, "remove")
    /\ UNCHANGED <<env, tenants, disabled, assigned, cacheVars, now, req, ev,
                   tenant, refreshAt, parsed, snap, started, harnessVars>>

\* Mutant: a failed removal is logged and the sequence carries on
Remove_SwallowFailure(r) ==
    /\ pc[r] = "remove"
    /\ LET u == ev[r].userId[1]
           src == env.DEFAULT_SRC_TENANT_ID[1]
       IN  \/ /\ \E st \in RemoveFaults : Log(r, "remove", st)
              /\ Goto(r, "list")
              /\ UNCHANGED <<member, disabled>>
           \/ /\ u \notin member[src]
              /\ Log(r, "remove", 404)
              /\ Goto(r, "list")
              /\ UNCHANGED <<member, disabled>>
           \/ /\ u \in member[src]
              /\ Log(r, "remove", 200)
              /\ member' = [member EXCEPT ![src] = @ \ {u}]
              /\ disabled' = [disabled EXCEPT ![src] = @ \ {u}]
              /\ Goto(r, "list")
    /\ UNCHANGED <<env, tenants, assigned, firstJoiner, cacheVars, now, req, ev,
                   tenant, refreshAt, parsed, snap, started, harnessVars>>

\* Mutant: a 404 on removal is reported as a failure
Remove_NotFoundThrows(r) ==
    /\ pc[r] = "remove"
    /\ LET u == ev[r].userId[1]
           src == env.DEFAULT_SRC_TENANT_ID[1]
       IN  \/ /\ \E st \in RemoveFaults : Log(r, "remove", st)
              /\ Respond(r, 500)
              /\ UNCHANGED <<member, disabled>>
           \/ /\ u \notin member[src]
              /\ Log(r, "remove", 404)
              /\ Respond(r, 500)
              /\ UNCHANGED <<member, disabled>>
           \/ /\ u \in member[src]
              /\ Log(r, "remove", 200)
              /\ member' = [member EXCEPT ![src] = @ \ {u}]
              /\ disabled' = [disabled EXCEPT ![src] = @ \ {u}]
              /\ Goto(r, "list")
    /\ UNCHANGED <<env, tenants, assigned, firstJoiner, cacheVars, now, req, ev,
                   tenant, refreshAt, parsed, snap, started, harnessVars>>

\* removeUserFromTenant on the source tenant: ok and 404 return
Remove(r) ==
    /\ pc[r] = "remove"
    /\ LET u == ev[r].userId[1]
           src == env.DEFAULT_SRC_TENANT_ID[1]
       IN  \/ /\ \E st \in RemoveFaults : Log(r, "remove", st)
              /\ Respond(r, 500)
              /\ UNCHANGED <<member, disabled>>
           \/ /\ u \notin member[src]
              /\ Log(r, "remove", 404)
              /\ Goto(r, "list")
              /\ UNCHANGED <<member, disabled>>
           \/ /\ u \in member[src]
              /\ Log(r, "remove", 200)
              /\ member' = [member EXCEPT ![src] = @ \ {u}]
              /\ disabled' = [disabled EXCEPT ![src] = @ \ {u}]
              /\ Goto(r, "list")
    /\ UNCHANGED <<env, tenants, assigned, firstJoiner, cacheVars, now, req, ev,
                   tenant, refreshAt, parsed, snap, started, harnessVars>>

\* Mutant: the disable call no longer waits for the oracle's answer
List_AlwaysDisable(r) ==
    /\ pc[r] = "list"
    /\ \/ /\ \E st \in ListFaults : LogList(r, tenant[r], st, <<>>)
          /\ Respond(r, 500)
       \/ /\ \E payload \in Listings(Cardinality(member[tenant[r]])) :
                LogList(r, tenant[r], 200, <<payload>>)
          /\ Goto(r, "disable")
    /\ UNCHANGED <<env, platformVars, cacheVars, now, req, ev, tenant,
                   refreshAt, parsed, snap, started, harnessVars>>

\* isSecondOrLaterUserInTenant on the target tenant, then if (notFirst)
List(r) ==
    /\ pc[r] = "list"
    /\ \/ /\ \E st \in ListFaults : LogList(r, tenant[r], st, <<>>)
          /\ Respond(r, 500)
       \/ \E payload \in Listings(Cardinality(member[tenant[r]])) :
             /\ LogList(r, tenant[r], 200, <<payload>>)
             /\ IF isSecondOrLaterUserInTenant(payload)
                THEN Goto(r, "disable")
                ELSE Respond(r, 200)
    /\ UNCHANGED <<env, platformVars, cacheVars, now, req, ev, tenant,
                   refreshAt, parsed, snap, started, harnessVars>>

\* Mutant: a failed disable is logged and the request is still answered 200
Disable_SwallowFailure(r) ==
    /\ pc[r] = "disable"
    /\ LET u == ev[r].userId[1]
           t == tenant[r]
       IN  \/ /\ \E st \in DisableFaults : Log(r, "disable", st)
              /\ Respond(r, 200)
              /\ UNCHANGED disabled
           \/ /\ u \notin member[t]
              /\ Log(r, "disable", 404)
              /\ Respond(r, 200)
              /\ UNCHANGED disabled
           \/ /\ u \in member[t]
              /\ Log(r, "disable", 200)
              /\ disabled' = [disabled EXCEPT ![t] = @ \cup {u}]
              /\ Respond(r, 200)
    /\ UNCHANGED <<env, tenants, member, assigned, firstJoiner, cacheVars, now,
                   req, ev, tenant, refreshAt, parsed, snap, started, harnessVars>>

\* disableUserInTenant on the target tenant
Disable(r) ==
    /\ pc[r] = "disable"
    /\ LET u == ev[r].userId[1]
           t == tenant[r]
       IN  \/ /\ \E st \in DisableFaults : Log(r, "disable", st)
              /\ Respond(r, 500)
              /\ UNCHANGED disabled
           \/ /\ u \notin member[t]
              /\ Log(r, "disable", 404)
              /\ Respond(r, 500)
              /\ UNCHANGED disabled
           \/ /\ u \in member[t]
              /\ Log(r, "disable", 200)
              /\ disabled' = [disabled EXCEPT ![t] = @ \cup {u}]
              /\ Respond(r, 200)
    /\ UNCHANGED <<env, tenants, member, assigned, firstJoiner, cacheVars, now,
                   req, ev, tenant, refreshAt, parsed, snap, started, harnessVars>>

\* The response is returned and the request's state is discarded
Discard(r) ==
    /\ pc[r] = "done"
    /\ pc' = [pc EXCEPT ![r] = "idle"]
    /\ req' = [req EXCEPT ![r] = NoRequest]
    /\ ev' = [ev EXCEPT ![r] = NoEvent]
    /\ tenant' = [tenant EXCEPT ![r] = ""]
    /\ refreshAt' = [refreshAt EXCEPT ![r] = 0]
    /\ calls' = [calls EXCEPT ![r] = <<>>]
    /\ resp' = [resp EXCEPT ![r] = 0]
    /\ parsed' = [parsed EXCEPT ![r] = FALSE]
    /\ UNCHANGED <<env, platformVars, cacheVars, now, started, harnessVars>>

Close(r) == Discard(r) /\ UNCHANGED snap

\* The request ran the reconciliation steps for a known user
Reconciled(r) ==
    /\ TruthyId(ev[r].userId)
    /\ \E i \in 1..Len(calls[r]) : calls[r][i].op = "add"

\* As Close, and the history of settled events is kept: a reconciliation
\* answered 200 records the user's standing, any other one that reached the
\* add step forgets it
SeqClose(r) ==
    /\ Discard(r)
    /\ IF Reconciled(r)
       THEN LET u == ev[r].userId[1]
            IN  snap' = [snap EXCEPT ![u] =
                    IF resp[r] = 200
                    THEN <<[ev |-> ev[r], st |-> UserState(member, disabled, u)]>>
                    ELSE <<>>]
       ELSE UNCHANGED snap

\* Time passes
Tick ==
    /\ now + VENDOR_TOKEN_TTL <= MaxNow
    /\ now' = now + VENDOR_TOKEN_TTL
    /\ UNCHANGED <<env, platformVars, cacheVars, pc, req, ev, tenant, refreshAt,
                   calls, resp, parsed, snap, started, harnessVars>>

Step(r) ==
    \/ Parse(r) \/ TokenFinish(r) \/ Find(r) \/ Create(r) \/ Assign(r)
    \/ Add(r) \/ Remove(r) \/ List(r) \/ Disable(r)

\* Requests are handled concurrently
Next == \E r \in Slots : Receive(r) \/ Step(r) \/ Close(r)

Spec == Init /\ [][Next]_vars

\* Every external call returns: a continuation that is ready to run is run
LiveSpec == Spec /\ \A r \in Slots : WF_vars(Step(r))

\* Requests are handled one after the other, while the clock moves on
SeqNext ==
    \/ \E r \in Slots : SeqReceive(r) \/ Step(r) \/ SeqClose(r)
    \/ Tick

SeqSpec == SeqInit /\ [][SeqNext]_vars

----------------------------------------------------------------------------
(* The three verifiers, applied to one header and one configured secret *)

\* Header values as a sender writes them
Headers == {<<>>, <<"">>, <<"k1">>, <<"k2">>, <<"K1">>, <<"k1 ">>, <<" k2">>,
            <<" ">>, <<"jwt.k1">>, <<"jwt.k2">>, <<"jwt.K1">>}

\* req.headers.get('x-webhook-secret'): null when the header was not sent,
\* else its value as the Headers object keeps it, which is the value sent
\* with leading and trailing whitespace removed
headersGet(sent) ==
    IF sent = <<>> THEN <<>>
    ELSE <<CASE sent[1] = "k1 " -> "k1"
             [] sent[1] = " k2" -> "k2"
             [] sent[1] = " " -> ""
             [] OTHER -> sent[1]>>
Secrets == {<<>>, <<"">>, <<"k1">>, <<"k2">>, <<"K1">>, <<"jwt.k1">>}

VerifyInit ==
    /\ Fresh({BaseEnv}, {<<"H">>})
    /\ vin \in {<<h, s>> : h \in Headers, s \in Secrets}
    /\ vout = <<>>

\* A request sent with header vin[1] reaches a process configured with vin[2]
VerifyApply ==
    /\ vout = <<>>
    /\ vout' = <<[secret |-> verifySecret(headersGet(vin[1]), vin[2]),
                  webhook |-> verifyWebhook(headersGet(vin[1]), vin[2]),
                  route |-> routeVerifyWebhook(headersGet(vin[1]), vin[2])]>>
    /\ UNCHANGED <<env, platformVars, cacheVars, now, pc, req, ev, tenant,
                   refreshAt, calls, resp, parsed, snap, started, vin>>

VerifyNext == VerifyApply

VerifySpec == VerifyInit /\ [][VerifyNext]_vars

----------------------------------------------------------------------------
(* Vocabulary of the properties *)

\* Positions of the calls of one kind in a request's log
CallsOf(r, op) == {i \in 1..Len(calls[r]) : calls[r][i].op = op}

LastCall(r) == calls[r][Len(calls[r])]

\* The user a request reconciles
UserOf(r) == ev[r].userId[1]

\* The attach call was refused: non-success other than 409
AddFailed(c) == c.op = "add" /\ ~Ok(c.status) /\ c.status # 409

\* The removal call was refused: non-success other than 404
RemoveFailed(c) == c.op = "remove" /\ ~Ok(c.status) /\ c.status # 404

\* The population listing was answered, and the oracle's verdict on it
Listed(c) == c.op = "list" /\ Ok(c.status)
OracleSaysSecond(c) == Listed(c) /\ isSecondOrLaterUserInTenant(c.body[1])

\* Every call of the request got the answer the platform's state dictates
NoFault(r) ==
    \A i \in 1..Len(calls[r]) :
        LET c == calls[r][i]
        IN  /\ ~(c.op = "token" /\ c.body = <<NoToken>>)
            /\ \/ Ok(c.status)
               \/ c.op \in {"assign", "add"} /\ c.status = 409
               \/ c.op = "remove" /\ c.status = 404

\* The header does not authenticate against the configured secret
InvalidHeader(h, s) ==
    \/ ~TruthyId(h)
    \/ ~TruthyId(s)
    \/ h # s /\ JwtSigningKey(h[1]) # s

----------------------------------------------------------------------------
(* Properties *)

\* C1: every user is a member of at least one tenant in every state, during
\* and after every reconciliation, whichever tenant the lookup resolves to.
\* Violated: when the lookup resolves to the holding tenant itself, the
\* attach is answered 409 and the removal then empties the user's memberships.
C1_NeverInZeroTenants ==
    \A u \in Users : \E t \in AllTenantIds : u \in member[t]

\* C2: a refused attach call (non-success other than 409) is the last call of
\* its request: no removal, no listing and no disable call follows it, and the
\* request is answered 500.
C2_AddFailureAborts ==
    \A r \in Slots : \A i \in 1..Len(calls[r]) :
        AddFailed(calls[r][i]) =>
            /\ i = Len(calls[r])
            /\ pc[r] = "done"
            /\ resp[r] = 500

\* C2 witness: a request ended on an attach call answered 404, a status the
\* removal step would have tolerated
C2_Witness ==
    \E r \in Slots :
        /\ pc[r] = "done" /\ resp[r] = 500
        /\ calls[r] # <<>>
        /\ LastCall(r).op = "add" /\ LastCall(r).status = 404

\* C3: a refused removal call (non-success other than 404) that follows a
\* successful attach is the last call of its request (no listing, no disable
\* call), the request is answered 500, and the user is still a member of the
\* target tenant.
C3_RemoveFailureKeepsAdd ==
    \A r \in Slots : \A i \in 1..Len(calls[r]) :
        (/\ RemoveFailed(calls[r][i])
         /\ \E j \in 1..(i - 1) :
               /\ calls[r][j].op = "add"
               /\ Ok(calls[r][j].status) \/ calls[r][j].status = 409)
        => /\ i = Len(calls[r])
           /\ pc[r] = "done"
           /\ resp[r] = 500
           /\ CallsOf(r, "disable") = {}
           /\ CallsOf(r, "list") = {}
           /\ UserOf(r) \in member[tenant[r]]

\* C3 witness: the attach was answered 201 and the removal 409; the user is
\* now in the new tenant and in the holding tenant
C3_Witness ==
    \E r \in Slots :
        /\ pc[r] = "done" /\ resp[r] = 500
        /\ calls[r] # <<>>
        /\ LastCall(r).op = "remove" /\ LastCall(r).status = 409
        /\ \E j \in CallsOf(r, "add") : calls[r][j].status = 201
        /\ tenant[r] # SrcTenant
        /\ UserOf(r) \in member[tenant[r]] \cap member[SrcTenant]

\* C4: handling again an event whose last handling was answered 200 is
\* answered 200 when no call fails, and leaves the user's memberships and
\* enabled/disabled standing as that handling left them, whatever was
\* reconciled for other users in between.
\* Violated: once a second user has joined the tenant, the redelivered event
\* of the first user finds two members and disables the first user.
C4_RedeliveryIdempotent ==
    \A r \in Slots :
        (/\ pc[r] = "done"
         /\ TruthyId(ev[r].userId)
         /\ snap[UserOf(r)] # <<>>
         /\ snap[UserOf(r)][1].ev = ev[r]
         /\ NoFault(r))
        => /\ resp[r] = 200
           /\ UserState(member, disabled, UserOf(r)) = snap[UserOf(r)][1].st

\* C5: the first user attached to a tenant this service created is never
\* disabled in it.
\* Violated: two users reconciled concurrently into the same new tenant are
\* both attached before either listing, so the first one is disabled too.
C5_FirstJoinerStaysEnabled ==
    \A t \in AllTenantIds :
        firstJoiner[t] # "" => firstJoiner[t] \notin disabled[t]

\* C6: within one request the disable call is issued at most once; it is
\* issued only for a known user id and after a listing on which the oracle
\* reports a second-or-later member; once the oracle has reported that, the
\* call is pending or has been issued exactly once; after a listing on which
\* the oracle reports a first member it is not issued.
C6_DisableGating ==
    \A r \in Slots :
        /\ Cardinality(CallsOf(r, "disable")) <= 1
        /\ \A i \in CallsOf(r, "disable") :
              /\ TruthyId(ev[r].userId)
              /\ \E j \in 1..(i - 1) : OracleSaysSecond(calls[r][j])
        /\ \A j \in 1..Len(calls[r]) :
              /\ OracleSaysSecond(calls[r][j]) =>
                    \/ pc[r] = "disable" /\ CallsOf(r, "disable") = {}
                    \/ pc[r] = "done" /\ Cardinality(CallsOf(r, "disable")) = 1
              /\ Listed(calls[r][j]) /\ ~OracleSaysSecond(calls[r][j]) =>
                    CallsOf(r, "disable") = {}
        /\ ~TruthyId(ev[r].userId) /\ pc[r] # "idle" =>
              CallsOf(r, "disable") = {} /\ CallsOf(r, "list") = {}

\* C6 witness: the listing showed two members and the request ended with
\* exactly one disable call, answered 200
C6_Witness ==
    \E r \in Slots :
        /\ pc[r] = "done" /\ resp[r] = 200
        /\ Cardinality(CallsOf(r, "disable")) = 1
        /\ \E j \in CallsOf(r, "list") : OracleSaysSecond(calls[r][j])
        /\ UserOf(r) \in disabled[tenant[r]]

\* C7: a request whose x-webhook-secret header is missing or invalid is
\* answered 401 in the step that receives it; its body is never parsed and it
\* issues no outbound call.
C7_GateBeforeParsing ==
    \A r \in Slots :
        pc[r] # "idle" /\ InvalidHeader(req[r].header, env.FRONTEGG_WEBHOOK_SECRET)
        => /\ pc[r] = "done"
           /\ resp[r] = 401
           /\ ~parsed[r]
           /\ calls[r] = <<>>

\* C7 witness: a request without the header, whose body is a well-formed
\* actionable event, was answered 401 unparsed
C7_Witness ==
    \E r \in Slots :
        /\ pc[r] = "done" /\ resp[r] = 401
        /\ req[r].header = <<>>
        /\ req[r].body.parses
        /\ extractEvent(req[r].body.json).key = InvitedKey
        /\ ~parsed[r] /\ calls[r] = <<>>

\* C8: each of the three verifiers rejects when the header, as
\* req.headers.get returns it, is missing or empty, and when the configured secret is missing or empty, whatever the
\* other one is.
C8_EmptyNeverPasses ==
    vout # <<>> /\ (~TruthyId(headersGet(vin[1])) \/ ~TruthyId(vin[2]))
    => ~vout[1].secret /\ ~vout[1].webhook /\ ~vout[1].route

\* C8 witness: an empty header was checked against an empty secret
C8_Witness ==
    /\ vout # <<>>
    /\ vin = <<<<"">>, <<"">>>>
    /\ ~vout[1].secret /\ ~vout[1].webhook /\ ~vout[1].route

\* C9 as stated: for a non-empty secret, verification succeeds for the header
\* (as req.headers.get returns it) equal to the secret and fails for every
\* header that differs from it.
\* Violated by verifySecret: a token signed with the secret differs from the
\* secret and is accepted.
C9_AnyDifferenceFails ==
    vout # <<>> /\ TruthyId(vin[2])
    => /\ headersGet(vin[1]) = vin[2] =>
            vout[1].secret /\ vout[1].webhook /\ vout[1].route
       /\ headersGet(vin[1]) # vin[2] =>
            ~vout[1].secret /\ ~vout[1].webhook /\ ~vout[1].route

\* C9 amended: for a non-empty secret, verification succeeds for the header
\* (as req.headers.get returns it) equal to the secret; for a header that differs from it the equality-only
\* verifiers fail, and verifySecret fails unless the header is a token whose
\* signature validates against the secret.
C9_DifferenceFailsUnlessSigned ==
    LET header == headersGet(vin[1])
    IN  vout # <<>> /\ TruthyId(vin[2])
        => /\ header = vin[2] =>
                vout[1].secret /\ vout[1].webhook /\ vout[1].route
           /\ header # vin[2] =>
                /\ ~vout[1].webhook /\ ~vout[1].route
                /\ vout[1].secret <=>
                      (TruthyId(header) /\ JwtSigningKey(header[1]) = vin[2])

\* C9 witness: the secret is k1; a header differing from it in one letter's
\* case was rejected by all three verifiers
C9_Witness ==
    /\ vout # <<>>
    /\ vin = <<<<"K1">>, <<"k1">>>>
    /\ ~vout[1].secret /\ ~vout[1].webhook /\ ~vout[1].route

\* C10: an authenticated request whose body parses to an event of a kind
\* other than invitedToTenant and signedUp is answered 204 by the step that
\* parses it, and issues no outbound call, the credential exchange included.
C10_OtherKindsIgnored ==
    \A r \in Slots :
        (/\ parsed[r]
         /\ req[r].body.parses
         /\ ~InvalidHeader(req[r].header, env.FRONTEGG_WEBHOOK_SECRET)
         /\ ev[r].key \notin {InvitedKey, SignedUpKey})
        => /\ pc[r] = "done"
           /\ resp[r] = 204
           /\ calls[r] = <<>>

\* C10 witness: an event of another kind, complete in every other respect,
\* was answered 204 without a call
C10_Witness ==
    \E r \in Slots :
        /\ pc[r] = "done" /\ resp[r] = 204
        /\ parsed[r]
        /\ ev[r].key = OtherKey
        /\ ev[r].tenantId = env.DEFAULT_SRC_TENANT_ID
        /\ TruthyId(ev[r].userId) /\ TruthyText(ev[r].email)
        /\ calls[r] = <<>>

\* An authenticated request whose body parsed to an invitedToTenant event
InvitedEvent(r) ==
    /\ parsed[r]
    /\ req[r].body.parses
    /\ ~InvalidHeader(req[r].header, env.FRONTEGG_WEBHOOK_SECRET)
    /\ ev[r].key = InvitedKey

\* C11: an invitedToTenant event whose context tenant id is a non-empty
\* string other than the configured default source tenant is answered 204 by
\* the step that parses it, and issues no outbound call.
C11_OtherTenantIgnored ==
    \A r \in Slots :
        (/\ InvitedEvent(r)
         /\ TruthyId(env.DEFAULT_SRC_TENANT_ID)
         /\ TruthyId(ev[r].tenantId)
         /\ ev[r].tenantId # env.DEFAULT_SRC_TENANT_ID)
        => /\ pc[r] = "done"
           /\ resp[r] = 204
           /\ calls[r] = <<>>

\* C11 witness: an event from tenant t9, complete in every other respect,
\* was answered 204 without a call while t0 is the configured source tenant
C11_Witness ==
    \E r \in Slots :
        /\ InvitedEvent(r)
        /\ pc[r] = "done" /\ resp[r] = 204
        /\ env.DEFAULT_SRC_TENANT_ID = <<SrcTenant>>
        /\ ev[r].tenantId = <<"t9">>
        /\ TruthyId(ev[r].userId) /\ TruthyText(ev[r].email)
        /\ calls[r] = <<>>

\* C12: with a default source tenant configured, an invitedToTenant event
\* issues outbound calls only if its tenant id equals the default, and every
\* other invitedToTenant event, one without a tenant id included, is answered
\* 204 without a call.
\* Violated: an event that declares no tenant id (absent, not a string, or
\* the empty string) is answered 400.
C12_UnscopedEventsIgnored ==
    \A r \in Slots :
        InvitedEvent(r) /\ TruthyId(env.DEFAULT_SRC_TENANT_ID)
        => \/ ev[r].tenantId = env.DEFAULT_SRC_TENANT_ID
           \/ pc[r] = "done" /\ resp[r] = 204 /\ calls[r] = <<>>

\* C13: without a configured default source tenant, every authenticated
\* invitedToTenant event is answered 500 by the step that parses it, and
\* issues no outbound call, whatever else the payload holds.
C13_UnconfiguredSourceIs500 ==
    \A r \in Slots :
        InvitedEvent(r) /\ ~TruthyId(env.DEFAULT_SRC_TENANT_ID)
        => /\ pc[r] = "done"
           /\ resp[r] = 500
           /\ calls[r] = <<>>

\* C13 witness: the default is not configured and an event without any
\* tenant id, which would otherwise be refused with 400, was answered 500
C13_Witness ==
    \E r \in Slots :
        /\ InvitedEvent(r)
        /\ env.DEFAULT_SRC_TENANT_ID = <<>>
        /\ ev[r].tenantId = <<>>
        /\ pc[r] = "done" /\ resp[r] = 500
        /\ calls[r] = <<>>

----------------------------------------------------------------------------
(* The handler of src/app (signedUp flow) *)

\* What that handler reads of a body: event.key and event.data?.user?.email
RouteBody(parses, key, email) ==
    [parses |-> parses, t |-> "obj", key |-> key, email |-> email]

\* A body that is JSON but not an object: null, a number, a string, an array
RouteValue(type) == [parses |-> TRUE, t |-> type, key |-> NoId, email |-> NoText]

\* Domains that name a member every object inherits from Object.prototype
ConstructorDomain == <<"c", "o", "n", "s", "t", "r", "u", "c", "t", "o", "r">>
ProtoDomain == <<"_", "_", "p", "r", "o", "t", "o", "_", "_">>

RouteBodies ==
    {RouteBody(FALSE, NoId, NoText)}
    \cup {RouteBody(TRUE, k, e) :
            k \in {IdV(SignedUpKey), IdV(InvitedKey), IdV(OtherKey), NoId, NumId},
            e \in {NoText, TextV(<<>>), TextV(Blank), TextV(EmailA), NumText}}
    \cup {RouteBody(TRUE, IdV(SignedUpKey), TextV(<<"x", "@">> \o d)) :
            d \in {ConstructorDomain, ProtoDomain}}
    \cup {RouteValue(type) : type \in {"null", "num", "str", "arr"}}

\* !email on  string | number | undefined  (the number is not 0)
RouteFalsyEmail(email) == email.t = "absent" \/ (email.t = "str" /\ email.v = <<>>)

\* POST of src/app before its try block: the response status, or 0 when the
\* event goes on to reconciliation.  An exception outside the try block is
\* answered 500 by the framework.  Three statements throw there: event.key
\* when the body is the JSON value null; new Response('Ignored', {status:
\* 204}), because a response of status 204 must not carry a body; and
\* email.split when the email is a number.
routeEarlyStatus(header, secret, body) ==
    IF ~routeVerifyWebhook(header, secret) THEN 401
    ELSE IF ~body.parses THEN 400
    ELSE IF body.t = "null" THEN 500
    ELSE IF StringOf(body.key) # <<SignedUpKey>> THEN 500
    ELSE IF RouteFalsyEmail(body.email) THEN 400
    ELSE IF body.email.t # "str" THEN 500
    ELSE 0

RouteInit ==
    /\ Fresh({BaseEnv, [BaseEnv EXCEPT !.DEFAULT_APP_ID = <<>>]},
             {<<"H">>, <<"A">>})
    /\ vin \in {<<h, b>> : h \in {<<"k1">>, <<"k2">>, <<>>}, b \in RouteBodies}
    /\ vout = <<>>

\* POST up to its first await inside the try block: a request with header
\* vin[1] and body vin[2] is answered at once, or getVendorToken sends its
\* request (that handler keeps no token cache)
RouteApply ==
    /\ vout = <<>>
    /\ pc[1] = "idle"
    /\ LET status == routeEarlyStatus(vin[1], env.FRONTEGG_WEBHOOK_SECRET, vin[2])
       IN  IF status = 0
           THEN pc' = [pc EXCEPT ![1] = "route.token"] /\ UNCHANGED vout
           ELSE vout' = <<status>> /\ UNCHANGED pc
    /\ UNCHANGED <<env, platformVars, cacheVars, now, req, ev, tenant,
                   refreshAt, calls, resp, parsed, snap, started, vin>>

\* The catch block: return new Response('Internal error', { status: 500 })
RouteFail ==
    /\ pc' = [pc EXCEPT ![1] = "done"]
    /\ vout' = <<500>>

RouteGoto(label) ==
    /\ pc' = [pc EXCEPT ![1] = label]
    /\ UNCHANGED vout

\* The exchange handed out a token; a request without one is refused
RouteAuthorized == \A i \in 1..Len(calls[1]) : calls[1][i].body # <<NoToken>>

\* DOMAIN_OVERRIDES[domain], <<>> for undefined.  The object literal has no
\* entry of its own, and a lookup in it finds what it inherits: the function
\* Object under 'constructor', the prototype object under '__proto__' (every
\* other inherited name holds a capital letter, and the domain is
\* lowercased)
DOMAIN_OVERRIDES(domain) ==
    IF domain = ConstructorDomain THEN <<[t |-> "function", v |-> <<>>]>>
    ELSE IF domain = ProtoDomain THEN <<[t |-> "object", v |-> <<>>]>>
    ELSE <<>>

\* targetName = DOMAIN_OVERRIDES[domain] ?? domainToTenantName(email), with
\* domain = email.split('@')[1]?.toLowerCase() ?? ''
RouteTargetName ==
    LET email == vin[2].email.v
        part == SplitSecond(email, "@")
        domain == IF part = <<>> THEN <<>> ELSE toLowerCase(part[1])
        override == DOMAIN_OVERRIDES(domain)
    IN  IF override # <<>> THEN override[1]
        ELSE [t |-> "str", v |-> domainToTenantName(email)]

\* url.searchParams.set('_filter', name): the name converted to a string
RouteFilter ==
    IF RouteTargetName.t = "str" THEN RouteTargetName.v
    ELSE IF RouteTargetName.t = "function"
    THEN <<"f", "u", "n", "c", "t", "i", "o", "n", " ", "O", "b", "j",
           "e", "c", "t", "(", ")", " ", "{", " ", "[", "n", "a", "t",
           "i", "v", "e", " ", "c", "o", "d", "e", "]", " ", "}">>
    ELSE <<"[", "o", "b", "j", "e", "c", "t", " ", "O", "b", "j", "e",
           "c", "t", "]">>

\* getVendorToken of src/app: throws unless res.ok, returns json.token
\* unchecked
RouteToken ==
    /\ pc[1] = "route.token"
    /\ \/ /\ Log(1, "token", 200)
          /\ RouteGoto("route.find")
       \/ /\ LogBody(1, "token", 200, NoToken)
          /\ RouteGoto("route.find")
       \/ /\ \E st \in AuthFaults : Log(1, "token", st)
          /\ RouteFail
    /\ UNCHANGED <<env, platformVars, cacheVars, now, req, ev, tenant, refreshAt,
                   resp, parsed, snap, started, vin>>

\* findTenantByName of src/app, then existing ?? createTenant: the first
\* element of json.items, or of json when it has no items array
RouteFind ==
    /\ pc[1] = "route.find"
    /\ \/ /\ \E st \in FindFaults \cup AuthFaults : Log(1, "find", st)
          /\ RouteFail
          /\ UNCHANGED tenant
       \/ /\ RouteAuthorized
          /\ Log(1, "find", 200)
          /\ LET m == Matching(RouteFilter)
             IN  \E list \in (IF m = {} THEN {<<>>} ELSE {<<t>> : t \in m}) :
                    IF Len(list) > 0
                    THEN /\ tenant' = [tenant EXCEPT ![1] = list[1]]
                         /\ RouteGoto(IF TruthyId(env.DEFAULT_APP_ID)
                                      THEN "route.assign" ELSE "route.invite")
                    ELSE /\ RouteGoto("route.create")
                         /\ UNCHANGED tenant
    /\ UNCHANGED <<env, platformVars, cacheVars, now, req, ev, refreshAt, resp,
                   parsed, snap, started, vin>>

\* createTenant of src/app; ensureAppAssignedToTenant returns at once when
\* no DEFAULT_APP_ID is configured.  JSON.stringify({ name }) leaves a name
\* that is a function out of the body and writes one that is an object as
\* {}: the platform refuses such a request or makes a tenant without a name
RouteCreate ==
    /\ pc[1] = "route.create"
    /\ \/ /\ \E st \in CreateFaults \cup
                       (IF RouteTargetName.t = "str" THEN {} ELSE {400}) :
                Log(1, "create", st)
          /\ RouteFail
          /\ UNCHANGED <<tenant, tenants>>
       \/ /\ Created < MaxCreated
          /\ Log(1, "create", 201)
          /\ LET id == IdPool[Created + 1]
                 name == IF RouteTargetName.t = "str" THEN RouteTargetName.v
                         ELSE <<>>
             IN  /\ tenants' = [t \in DOMAIN tenants \cup {id} |->
                                  IF t = id THEN name ELSE tenants[t]]
                 /\ tenant' = [tenant EXCEPT ![1] = id]
          /\ RouteGoto(IF TruthyId(env.DEFAULT_APP_ID)
                       THEN "route.assign" ELSE "route.invite")
    /\ UNCHANGED <<env, member, disabled, assigned, firstJoiner, cacheVars, now,
                   req, ev, refreshAt, resp, parsed, snap, started, vin>>

\* ensureAppAssignedToTenant with DEFAULT_APP_ID configured: ok and 409 return
RouteAssign ==
    /\ pc[1] = "route.assign"
    /\ \/ /\ \E st \in AssignFaults : Log(1, "assign", st)
          /\ RouteFail
          /\ UNCHANGED assigned
       \/ /\ tenant[1] \in assigned
          /\ Log(1, "assign", 409)
          /\ RouteGoto("route.invite")
          /\ UNCHANGED assigned
       \/ /\ tenant[1] \notin assigned
          /\ Log(1, "assign", 201)
          /\ assigned' = assigned \cup {tenant[1]}
          /\ RouteGoto("route.invite")
    /\ UNCHANGED <<env, tenants, member, disabled, firstJoiner, cacheVars, now,
                   req, ev, tenant, refreshAt, resp, parsed, snap, started, vin>>

\* The platform's user with that address; an address it does not know makes
\* a new user
UserWithEmail(email) ==
    IF email = EmailA THEN "u1" ELSE IF email = EmailB THEN "u2" ELSE "u3"

\* addUserToTenantByEmail (bulk invite): throws unless res.ok, then 200
RouteInvite ==
    /\ pc[1] = "route.invite"
    /\ \/ /\ \E st \in AddFaults \cup {409} : Log(1, "invite", st)
          /\ RouteFail
          /\ UNCHANGED <<member, firstJoiner>>
       \/ /\ Log(1, "invite", 201)
          /\ PlatformAdd(tenant[1], UserWithEmail(vin[2].email.v))
          /\ pc' = [pc EXCEPT ![1] = "done"]
          /\ vout' = <<200>>
    /\ UNCHANGED <<env, tenants, disabled, assigned, cacheVars, now, req, ev,
                   tenant, refreshAt, resp, parsed, snap, started, vin>>

RouteNext ==
    \/ RouteApply \/ RouteToken \/ RouteFind \/ RouteCreate \/ RouteAssign
    \/ RouteInvite

RouteSpec == RouteInit /\ [][RouteNext]_vars

\* C14: an authenticated signedUp event (no tenant filter applies to it)
\* whose email is absent, not a string or blank is answered 200 before any
\* outbound call.
\* Violated by the handler of src/app: an absent or empty email is answered
\* 400, a non-string one makes the handler throw, a blank one is reconciled.
C14_NoEmailAcknowledged ==
    (/\ vout # <<>>
     /\ routeVerifyWebhook(vin[1], env.FRONTEGG_WEBHOOK_SECRET)
     /\ vin[2].parses
     /\ vin[2].key = IdV(SignedUpKey)
     /\ vin[2].email.t # "str" \/ trim(vin[2].email.v) = <<>>)
    => vout[1] = 200

----------------------------------------------------------------------------
(* Properties of the final handler, continued *)

\* C15: an authenticated request whose body is not JSON is answered 400 by
\* the step that reads it, and issues no outbound call.
C15_BadJsonIs400 ==
    \A r \in Slots :
        (/\ pc[r] \notin {"idle", "parse"}
         /\ ~InvalidHeader(req[r].header, env.FRONTEGG_WEBHOOK_SECRET)
         /\ ~req[r].body.parses)
        => /\ pc[r] = "done"
           /\ resp[r] = 400
           /\ calls[r] = <<>>

\* C15 witness: a request authenticated by a signed token, with a body that
\* is not JSON, was answered 400
C15_Witness ==
    \E r \in Slots :
        /\ pc[r] = "done" /\ resp[r] = 400
        /\ req[r].header = <<"jwt.k1">>
        /\ ~req[r].body.parses
        /\ parsed[r] /\ calls[r] = <<>>

\* The event passed every filter and dry-run mode is off
PassedFilters(r) ==
    /\ InvitedEvent(r)
    /\ TruthyId(env.DEFAULT_SRC_TENANT_ID)
    /\ ev[r].tenantId = env.DEFAULT_SRC_TENANT_ID
    /\ TruthyText(ev[r].email)
    /\ ~DRY_RUN(env)

\* The call returned a success status or the status its wrapper tolerates
Tolerated(c) ==
    \/ Ok(c.status)
    \/ c.op \in {"assign", "add"} /\ c.status = 409
    \/ c.op = "remove" /\ c.status = 404

\* Client id and API key of the credential exchange are configured
CredentialsConfigured ==
    TruthyId(env.FRONTEGG_CLIENT_ID) /\ TruthyId(env.FRONTEGG_API_KEY)

C17_SignedUpReconciled ==
    \A r \in Slots :
        (/\ pc[r] = "done"
         /\ parsed[r]
         /\ req[r].body.parses
         /\ ~InvalidHeader(req[r].header, env.FRONTEGG_WEBHOOK_SECRET)
         /\ ev[r].key = SignedUpKey
         /\ TruthyId(ev[r].userId)
         /\ TruthyText(ev[r].email)
         /\ ~DRY_RUN(env)
         /\ CredentialsConfigured
         /\ NoFault(r)
         /\ \E t \in DOMAIN tenants \ {SrcTenant} :
               /\ tenants[t] = tenantNameOf(ev[r])
               /\ member[t] \ {UserOf(r)} # {})
        => /\ resp[r] = 200
           /\ \E i \in CallsOf(r, "add") : Tolerated(calls[r][i])
           /\ CallsOf(r, "disable") # {}

----------------------------------------------------------------------------
(* The attach wrapper invoked repeatedly for one user and one tenant *)

\* addUserToTenantById of the final handler returns (TRUE) or throws (FALSE)
addUserToTenantById(status) == Ok(status) \/ status = 409

\* addUserToTenantById of the earlier attach-by-id handler: if (!res.ok) throw
addUserToTenantByIdEarlier(status) == Ok(status)

AddOutcome(variant, status) ==
    [status |-> status,
     returns |-> IF variant = "final" THEN addUserToTenantById(status)
                 ELSE addUserToTenantByIdEarlier(status)]

AddTwiceInit ==
    /\ Fresh({BaseEnv}, {<<"H">>})
    /\ vin \in {<<v, u, t>> : v \in {"final", "earlier"}, u \in Users,
                              t \in AllTenantIds}
    /\ vout = <<>>

\* One invocation of the wrapper vin[1] for user vin[2] and tenant vin[3],
\* and the platform's part of it
AddInvoke ==
    /\ Len(vout) < MaxInvocations
    /\ LET u == vin[2]
           t == vin[3]
       IN  \/ /\ \E st \in AddFaults : vout' = Append(vout, AddOutcome(vin[1], st))
              /\ UNCHANGED <<member, firstJoiner>>
           \/ /\ u \in member[t]
              /\ vout' = Append(vout, AddOutcome(vin[1], 409))
              /\ UNCHANGED <<member, firstJoiner>>
           \/ /\ u \notin member[t]
              /\ vout' = Append(vout, AddOutcome(vin[1], 201))
              /\ PlatformAdd(t, u)
    /\ UNCHANGED <<env, tenants, disabled, assigned, cacheVars, now, pc, req, ev,
                   tenant, refreshAt, calls, resp, parsed, snap, started, vin>>

AddTwiceNext == AddInvoke

AddTwiceSpec == AddTwiceInit /\ [][AddTwiceNext]_vars

\* C18: when the attach step is invoked again for a pair it has attached,
\* the user is still a member of the tenant, and an invocation the platform
\* answers 409 returns instead of throwing.
\* Violated by the earlier attach-by-id handler, whose wrapper throws on
\* every non-success status, 409 included.
C18_AddIdempotent ==
    \A i \in 1..Len(vout) :
        /\ vout[i].status = 409 => vout[i].returns
        /\ vout[i].returns => vin[2] \in member[vin[3]]

\* C19: after a removal call answered 200 or 404 the user is absent from the
\* source tenant and the request goes on to the listing: a removal answered
\* 404, as the second one for the same user is, does not fail the request.
C19_RemoveIdempotent ==
    \A r \in Slots : \A i \in CallsOf(r, "remove") :
        calls[r][i].status \in {200, 404}
        => /\ UserOf(r) \notin member[env.DEFAULT_SRC_TENANT_ID[1]]
           /\ i = Len(calls[r]) => pc[r] = "list" /\ resp[r] = 0
           /\ i < Len(calls[r]) => calls[r][i + 1].op = "list"

\* C19 witness: the event was reconciled before, which removed the user from
\* the source tenant; handled again, its removal call was answered 404 and
\* the request ended with 200
C19_Witness ==
    \E r \in Slots :
        /\ pc[r] = "done" /\ resp[r] = 200
        /\ TruthyId(ev[r].userId)
        /\ snap[UserOf(r)] # <<>>
        /\ snap[UserOf(r)][1].ev = ev[r]
        /\ SrcTenant \notin snap[UserOf(r)][1].st.memberOf
        /\ \E i \in CallsOf(r, "remove") : calls[r][i].status = 404
        /\ UserOf(r) \notin member[SrcTenant]

\* The lookups and creations in a request's log: at most one of each, a
\* creation only directly after an answered lookup
ResolverCalls(r) ==
    /\ Cardinality(CallsOf(r, "find")) <= 1
    /\ Cardinality(CallsOf(r, "create")) <= 1
    /\ \A i \in CallsOf(r, "create") :
          /\ i > 1
          /\ calls[r][i - 1].op = "find" /\ Ok(calls[r][i - 1].status)
    /\ pc[r] = "create" =>
          /\ CallsOf(r, "create") = {}
          /\ LastCall(r).op = "find" /\ Ok(LastCall(r).status)

\* The step in which a request's lookup is answered: without a match the
\* request turns to creation, with a match it takes a matching tenant and
\* does not create
LookupStep(r) ==
    (/\ pc[r] = "find" /\ pc'[r] # "find"
     /\ Ok(calls'[r][Len(calls'[r])].status))
    => LET m == Matching(tenantNameOf(ev[r]))
       IN  /\ m = {} => pc'[r] = "create" /\ tenant'[r] = tenant[r]
           /\ m # {} => pc'[r] # "create" /\ tenant'[r] \in m
           /\ tenants' = tenants

\* The step in which a request's creation is answered with success: one
\* tenant is added, under exactly the name the lookup was made with
CreateStep(r) ==
    (/\ pc[r] = "create" /\ pc'[r] # "create"
     /\ Ok(calls'[r][Len(calls'[r])].status))
    => /\ tenant'[r] \notin DOMAIN tenants
       /\ DOMAIN tenants' = DOMAIN tenants \cup {tenant'[r]}
       /\ tenants'[tenant'[r]] = tenantNameOf(ev[r])
       /\ \A t \in DOMAIN tenants : tenants'[t] = tenants[t]

\* C20: a request performs at most one lookup; when the lookup finds no
\* match it performs exactly one creation, with exactly the looked-up name,
\* and no second lookup; when the lookup finds a match it performs no
\* creation and uses the returned tenant.
C20_ResolverCorrect ==
    /\ [](\A r \in Slots : ResolverCalls(r))
    /\ [][\A r \in Slots : LookupStep(r) /\ CreateStep(r)]_vars

\* C20 witness: a request's lookup found nothing, its creation was answered
\* 201, and the tenant it goes on with carries the derived name
C20_Witness ==
    \E r \in Slots :
        /\ Len(calls[r]) >= 2
        /\ \E i \in CallsOf(r, "create") :
              /\ calls[r][i].status = 201
              /\ calls[r][i - 1].op = "find"
        /\ tenant[r] \in DOMAIN tenants \ {SrcTenant}
        /\ tenants[tenant[r]] = tenantNameOf(ev[r])

\* C21: every finished request answered 200 for an event that passed the
\* filters (usable email included) has issued a call that adds the user to
\* the resolved tenant: the attach by user id when the event carries a user
\* id, the invitation by email when it does not.
\* Violated: without a user id the final handler issues neither call, warns
\* and answers 200.
C21_OkMeansAdded ==
    \A r \in Slots :
        pc[r] = "done" /\ resp[r] = 200 /\ PassedFilters(r)
        => \E i \in 1..Len(calls[r]) :
              /\ calls[r][i].op = IF TruthyId(ev[r].userId) THEN "add" ELSE "invite"
              /\ Tolerated(calls[r][i])

\* C22: with DRY_RUN=1 no request issues an outbound call, the credential
\* exchange included: every call log is empty, the token cache stays empty
\* and the platform stays as it started; and a finished request whose event
\* is an authenticated invitedToTenant event of the source tenant with an
\* email is answered 200.
C22_DryRunIssuesNoCall ==
    DRY_RUN(env)
    => /\ vendorTokenCache = <<>>
       /\ DOMAIN tenants = {SrcTenant}
       /\ member[SrcTenant] = Users
       /\ \A r \in Slots :
             /\ calls[r] = <<>>
             /\ pc[r] \in {"idle", "parse", "done"}
             /\ (/\ pc[r] = "done"
                 /\ InvitedEvent(r)
                 /\ ev[r].tenantId = env.DEFAULT_SRC_TENANT_ID
                 /\ TruthyText(ev[r].email))
                => resp[r] = 200

\* C22 witness: in dry-run mode an event that would be reconciled was
\* answered 200 and nothing was called
C22_Witness ==
    /\ DRY_RUN(env)
    /\ \E r \in Slots :
          /\ pc[r] = "done" /\ resp[r] = 200
          /\ InvitedEvent(r)
          /\ ev[r].tenantId = env.DEFAULT_SRC_TENANT_ID
          /\ TruthyText(ev[r].email)
          /\ TruthyId(ev[r].userId)
          /\ calls[r] = <<>>

----------------------------------------------------------------------------
(* The credential cache *)

\* The step in which getVendorToken returns the cached token
CacheHit(r) == pc[r] = "parse" /\ pc'[r] = "find"

\* The step in which getVendorToken starts a refresh
RefreshStart(r) == pc[r] = "parse" /\ pc'[r] = "exchange"

\* The step in which a refresh stores the new session
RefreshStore(r) == pc[r] = "exchange" /\ pc'[r] = "find"

\* The cache slot holds a session that has not expired
Unexpired == vendorTokenCache # <<>> /\ vendorTokenCache[1].expiresAt > now

\* C23: a token is returned from the cache only while its expiresAt is after
\* now; the session a refresh stores expires 6 hours after the instant the
\* refresh started, and it expires later than the session it replaces.
C23_NeverHandedOutExpired ==
    [][\A r \in Slots :
          /\ CacheHit(r) => Unexpired /\ vendorTokenCache' = vendorTokenCache
          /\ RefreshStart(r) => refreshAt'[r] = now
          /\ RefreshStore(r) =>
                /\ vendorTokenCache' =
                      <<[token |-> VendorToken,
                         expiresAt |-> refreshAt[r] + VENDOR_TOKEN_TTL]>>
                /\ vendorTokenCache # <<>> =>
                      vendorTokenCache'[1].expiresAt > vendorTokenCache[1].expiresAt]_vars

\* C23 witness: a request was handed the cached token of a session that
\* replaced an expired one
C23_Witness ==
    \E r \in Slots :
        /\ pc[r] = "find" /\ calls[r] = <<>>
        /\ now > 0
        /\ vendorTokenCache # <<>>
        /\ vendorTokenCache[1].expiresAt = now + VENDOR_TOKEN_TTL

\* C24: a request starts a credential exchange only when the cache slot is
\* empty or its session has expired; a request that gets past the filters
\* while the slot holds an unexpired session goes on to the tenant lookup
\* with the cached token and without a call; and an exchange call enters a
\* request's log only at the exchange, once, as its first call.
C24_ExchangeOnlyWhenNeeded ==
    /\ [][\A r \in Slots :
             /\ RefreshStart(r) => ~Unexpired
             /\ (pc[r] = "parse" /\ PassedFilters(r)' /\ Unexpired)
                => CacheHit(r) /\ calls'[r] = <<>>
             /\ CallsOf(r, "token")' \ CallsOf(r, "token") # {}
                => pc[r] = "exchange" /\ calls[r] = <<>>]_vars
    /\ [](\A r \in Slots : CallsOf(r, "token") \subseteq {1})

\* C24 witness: a request was reconciled and answered 200 on the cached
\* token, without an exchange call
C24_Witness ==
    \E r \in Slots :
        /\ pc[r] = "done" /\ resp[r] = 200
        /\ TruthyId(ev[r].userId)
        /\ CallsOf(r, "token") = {}
        /\ CallsOf(r, "add") # {}

----------------------------------------------------------------------------
(* The normalizer applied to the two historical payload shapes *)

DeclaredName == <<"A", "c", "m", "e">>
DeclaredNameSpaced == <<" ", "A", "c", "m", "e">>

\* tenant and data objects of a payload
NoTenant == [t |-> "absent", name |-> NoText]
Tenant(name) == [t |-> "obj", name |-> name]
NoData == [t |-> "absent", user |-> NoUser, tenant |-> NoTenant]
Data(u, tn) == [t |-> "obj", user |-> u, tenant |-> tn]

\* A parsed body with every location a handler of this repository reads
Wire(k, ek, ctx, u, tn, d) ==
    [t |-> "obj", key |-> k, eventKey |-> ek, eventContext |-> ctx,
     user |-> u, tenant |-> tn, data |-> d]

\* What an event says: kind, user.id, eventContext.userId, user.email and
\* the tenant name a prehook declared
EventValues ==
    [kind : {IdV(InvitedKey), IdV(SignedUpKey), NumId},
     userId : {NoId, IdV("u1"), NumId},
     ctxUserId : {NoId, IdV("u2")},
     email : {NoText, TextV(EmailA), TextV(EmailASpaced), TextV(EmailB),
              TextV(<<"\t">> \o EmailA \o <<"\r", "\n">>), TextV(<<"\n">>)},
     tenantName : {NoText, TextV(<<>>), TextV(DeclaredName),
                   TextV(DeclaredNameSpaced)}]

\* { eventKey, user, tenant, eventContext }
TopShape(v) ==
    Wire(NoId, v.kind, Context(IdV(SrcTenant), v.ctxUserId),
         User(v.userId, v.email), Tenant(v.tenantName), NoData)

\* { key, data: { user, tenant }, eventContext }
NestedShape(v) ==
    Wire(v.kind, NoId, Context(IdV(SrcTenant), v.ctxUserId),
         NoUser, NoTenant, Data(User(v.userId, v.email), Tenant(v.tenantName)))

\* typeof x === 'string' ? x.trim() : undefined
TrimmedText(j) == IF j.t = "str" THEN <<trim(j.v)>> ELSE <<>>

\* extractEvent of the earlier signedUp handler: key before eventKey,
\* data.user before user, data.tenant before tenant, context id before user id
extractEventEarlier(payload) ==
    LET obj == payload
        hasData == IsObject(obj.data)
        hasContext == IsObject(obj.eventContext)
        user == IF hasData /\ IsObject(obj.data.user) THEN <<obj.data.user>>
                ELSE IF IsObject(obj.user) THEN <<obj.user>>
                ELSE <<>>
        tn == IF hasData /\ IsObject(obj.data.tenant) THEN <<obj.data.tenant>>
              ELSE IF IsObject(obj.tenant) THEN <<obj.tenant>>
              ELSE <<>>
        userIdFromContext ==
            IF hasContext THEN StringOf(obj.eventContext.userId) ELSE <<>>
        userIdFromUser == IF user # <<>> THEN StringOf(user[1].id) ELSE <<>>
    IN  [key |-> IF obj.key.t = "str" THEN obj.key.v
                 ELSE OrEmpty(StringOf(obj.eventKey)),
         userId |-> Coalesce(userIdFromContext, userIdFromUser),
         email |-> IF user # <<>> THEN TrimmedText(user[1].email) ELSE <<>>,
         prehookTenantName |->
             IF tn # <<>> THEN TrimmedText(tn[1].name) ELSE <<>>]

\* The four fields of the canonical event
Canon(e) ==
    [key |-> e.key, userId |-> e.userId, email |-> e.email,
     prehookTenantName |-> e.prehookTenantName]

\* The canonical event that the values of an event stand for
Canonical(v) ==
    [key |-> OrEmpty(StringOf(v.kind)),
     userId |-> Coalesce(StringOf(v.ctxUserId), StringOf(v.userId)),
     email |-> TrimmedText(v.email),
     prehookTenantName |-> TrimmedText(v.tenantName)]

ExtractInit ==
    /\ Fresh({BaseEnv}, {<<"H">>})
    /\ vin \in EventValues
    /\ vout = <<>>

\* The event vin arrives in both shapes and is normalized by both extractors
ExtractApply ==
    /\ vout = <<>>
    /\ vout' = <<[top |-> Canon(extractEvent(TopShape(vin))),
                  nested |-> Canon(extractEvent(NestedShape(vin))),
                  earlierTop |-> extractEventEarlier(TopShape(vin)),
                  earlierNested |-> extractEventEarlier(NestedShape(vin))]>>
    /\ UNCHANGED <<env, platformVars, cacheVars, now, pc, req, ev, tenant,
                   refreshAt, calls, resp, parsed, snap, started, vin>>

ExtractNext == ExtractApply

ExtractSpec == ExtractInit /\ [][ExtractNext]_vars

\* C25: for an event with an email, the name the tenant is looked up and
\* created under is the declared tenant name whenever the event declares a
\* non-empty one, and the name derived from the email otherwise.
\* Violated: the final handler's extractEvent sets prehookTenantName to
\* undefined whatever the payload declares.
C25_DeclaredNameWins ==
    (vout # <<>> /\ TruthyText(vout[1].top.email))
    => tenantNameOf(vout[1].top) =
          IF TruthyText(TrimmedText(vin.tenantName))
          THEN TrimmedText(vin.tenantName)[1]
          ELSE labelFromDomain(domainFromEmail(vout[1].top.email[1]))

\* C27: the normalizer returns the same canonical event for the top-level
\* shape and for the nested shape of an event, with each of kind, user id,
\* email and declared tenant name read from whichever location carries it,
\* and eventContext.userId taken before user.id.
\* Violated: the final handler's extractEvent reads eventKey, user and
\* eventContext only, so the nested shape yields an empty event.
C27_SameEventBothShapes ==
    vout # <<>>
    => /\ vout[1].nested = vout[1].top
       /\ vout[1].top.key = Canonical(vin).key
       /\ vout[1].top.userId = Canonical(vin).userId
       /\ vout[1].top.email = Canonical(vin).email

----------------------------------------------------------------------------
(* Tenant-name derivation applied to emails  local@Sub.rest *)

Locals == {<<"x">>, <<"b", "o", "b">>, <<"a", ".", "b">>}
SubLabels ==
    {<<"a">>, <<"a", "B">>, <<"S", "u", "b">>, <<"A", "c", "m", "e">>,
     <<"A", "C", "M", "E">>, <<"a", "c", "m", "e">>, <<"9", "a">>,
     <<"U+00C9", "b", "c">>, <<"U+00DF", "a", "b">>, <<"U+0130", "B">>}
Rests ==
    {<<"i", "o">>, <<"b", ".", "c">>, <<"C", "O", ".", "U", "K">>,
     <<"D", "o", "m", "a", "i", "n", ".", "t", "l", "d">>,
     <<"b", "\n", "c", ".", "d">>}

\* The part after Sub is made of domain labels: it holds no line terminator
PlainRest(rest) == \A i \in 1..Len(rest) : rest[i] \notin LineTerminators

\* The email written from its parts
EmailOf(v) == v.local \o <<"@">> \o v.sub \o <<".">> \o v.rest

\* Sub, lowercased, with its first character capitalized
Capitalized(sub) ==
    LET lower == toLowerCase(sub)
    IN  UpperChar(lower[1]) \o Tail(lower)

DeriveInit ==
    /\ Fresh({BaseEnv}, {<<"H">>})
    /\ vin \in [local : Locals, sub : SubLabels, rest : Rests]
    /\ vout = <<>>

\* The tenant name of the email vin is derived by both handlers
DeriveApply ==
    /\ vout = <<>>
    /\ vout' = <<[final |-> labelFromDomain(domainFromEmail(EmailOf(vin))),
                  route |-> domainToTenantName(EmailOf(vin))]>>
    /\ UNCHANGED <<env, platformVars, cacheVars, now, pc, req, ev, tenant,
                   refreshAt, calls, resp, parsed, snap, started, vin>>

DeriveNext == DeriveApply

DeriveSpec == DeriveInit /\ [][DeriveNext]_vars

\* C26: for an email local@Sub.rest, rest being one or more domain labels,
\* the derived tenant name is Sub, lowercased, with its first character
\* capitalized, whatever follows the first '.' of the domain; both
\* derivations of the repository agree on it.
C26_DerivedNameIsCapitalizedSub ==
    vout # <<>> /\ PlainRest(vin.rest)
    => /\ vout[1].final = Capitalized(vin.sub)
       /\ vout[1].route = Capitalized(vin.sub)

\* C26 witness: an upper-case Sub before a domain of several labels was
\* derived to its capitalized lower-case form
C26_Witness ==
    /\ vout # <<>>
    /\ vin.sub = <<"A", "C", "M", "E">>
    /\ IndexOf(vin.rest, ".") # 0
    /\ vout[1].final = <<"A", "c", "m", "e">>

----------------------------------------------------------------------------
(* Properties of the final handler, continued *)

\* eventContext.applicationId of a request's event, as an optional
ApplicationOf(r) == StringOf(req[r].body.json.eventContext.applicationId)

\* C28: a request issues a disable call only when the default application
\* is configured, its event's applicationId equals it, and the listing said
\* the user is not the first member of the target tenant.
\* Violated: the final handler never reads the applicationId and disables
\* every user who is not the first member.
C28_DisableOnlyForDefaultApp ==
    \A r \in Slots :
        CallsOf(r, "disable") # {}
        => /\ TruthyId(env.DEFAULT_APP_ID)
           /\ ApplicationOf(r) = env.DEFAULT_APP_ID
           /\ \E i \in CallsOf(r, "list") : OracleSaysSecond(calls[r][i])

----------------------------------------------------------------------------
(* The text of a 500 response, in two runs that differ in credentials *)

\* Vendor tokens (json.token of the exchange) as characters: two that are
\* plain, two that hold a line feed inside, one that ends with a line feed
Tokens ==
    {<<"t", "A">>, <<"t", "B">>, <<"t", "\n", "A">>, <<"t", "\n", "B">>,
     <<"t", "A", "\n">>}

\* What a run holds in secret: the vendor token the exchange returned, the
\* API key (client secret) and the webhook secret
Credentials ==
    [token : Tokens, apiKey : {"keyA", "keyB"}, webhookSecret : {"k1", "k2"}]

\* The outbound operations and the tag each wrapper puts in its error
Operations ==
    {"token", "find", "create", "assign", "add", "remove", "list", "disable"}

\* The order of the calls in the try block
CallOrder ==
    <<"token", "find", "create", "assign", "add", "remove", "list", "disable">>

NextOperation(op) ==
    CallOrder[(CHOOSE i \in 1..Len(CallOrder) : CallOrder[i] = op) + 1]

ErrorTag(op) ==
    CASE op = "token" -> "AUTH_VENDOR"
      [] op = "find" -> "TENANTS_V2"
      [] op = "create" -> "TENANTS_CREATE"
      [] op = "assign" -> "APP_ASSIGN"
      [] op = "add" -> "ADD_USER_TO_TENANT"
      [] op = "remove" -> "REMOVE_USER"
      [] op = "list" -> "TENANT_USERS"
      [] op = "disable" -> "DISABLE_USER"

\* Response bodies of the platform: the text, whether the response declares
\* content type application/json, and whether the text is JSON
TextBody(raw) == [json |-> FALSE, valid |-> FALSE, raw |-> raw]
JsonBody(raw) == [json |-> TRUE, valid |-> TRUE, raw |-> raw]
BrokenJsonBody(raw) == [json |-> TRUE, valid |-> FALSE, raw |-> raw]

\* What goes wrong in a request, the same in both runs: one call is answered
\* with an unexpected status and a body; or its fetch is rejected (no answer
\* from the network, logged as status 0); or it is answered 200 with a body that res.json()
\* cannot parse, in the wrappers that read one; or the exchange answers 200
\* without a token; or nothing
Failures ==
    [op : Operations, kind : {"status"}, status : {401, 500},
     body : {TextBody("unauthorized"), JsonBody("{\"errors\":[\"x\"]}"),
             BrokenJsonBody("<html>")}]
    \cup [op : Operations, kind : {"network"}, status : {0},
          body : {TextBody("")}]
    \cup [op : {"token", "find", "create", "list"}, kind : {"syntax"},
          status : {200}, body : {BrokenJsonBody("<html>")}]
    \cup [op : {"token"}, kind : {"tokenMissing"}, status : {200},
          body : {JsonBody("{}")}]
    \cup [op : {"none"}, kind : {"none"}, status : {0}, body : {TextBody("")}]

\* JSON.stringify(await readJsonOrText(res)): a body declared as JSON is
\* parsed and written again in compact form, which the JSON bodies of the
\* model are in already; any other body is a text and is written in double
\* quotes (the texts of the model hold no character that needs an escape)
JsonStringify(body) ==
    IF body.json THEN <<body.raw>> ELSE <<"\"", body.raw, "\"">>

\* The en dash the wrappers write between status and body
EnDash == "U+2013"

\* ${res.status} in a template string
StatusText(status) ==
    CASE status = 200 -> "200" [] status = 401 -> "401" [] status = 500 -> "500"

\* err.message of the error a wrapper builds for a call answered !res.ok:
\* a tag, the status and the body, and nothing of the credentials
errorMessage(f) ==
    <<ErrorTag(f.op), " ", StatusText(f.status), " ", EnDash, " ">>
        \o JsonStringify(f.body)

\* readJsonOrText on a body that is declared as JSON and is not: res.json()
\* fails and is caught, and res.text() on the body already read rejects
\* with this TypeError of the runtime's fetch
BodyUnusable == <<"Body is unusable: Body has already been read">>

\* The first character of a text that is not JSON
FirstChar(raw) == CASE raw = "<html>" -> "<"

\* The SyntaxError of res.json() on a body that is not JSON
syntaxErrorMessage(raw) ==
    <<"Unexpected token '", FirstChar(raw), "', \"", raw,
      "\" is not valid JSON">>

\* The bytes that fetch removes from both ends of a header value
HttpWhitespace == {"\t", "\n", "\r", " "}

RECURSIVE headerValueNormalize(_)
headerValueNormalize(value) ==
    IF value = <<>> THEN value
    ELSE IF value[1] \in HttpWhitespace THEN headerValueNormalize(Tail(value))
    ELSE IF value[Len(value)] \in HttpWhitespace
    THEN headerValueNormalize(SubSeq(value, 1, Len(value) - 1))
    ELSE value

\* A header value holds no NUL, CR or LF
isValidHeaderValue(value) ==
    \A i \in 1..Len(value) : value[i] \notin {"U+0000", "\r", "\n"}

\* Authorization: `Bearer ${token}`
Authorization(token) ==
    <<"B", "e", "a", "r", "e", "r", " ">> \o token

\* The TypeError with which the fetch of the Node.js runtime (declared by
\* export const runtime = 'nodejs') rejects a header value that is not
\* valid: it quotes the value
invalidHeaderMessage(value) ==
    <<"Headers.append: \"">> \o value \o <<"\" is an invalid header value.">>

\* err.message of what a failing call throws inside the try block
thrownMessage(f) ==
    CASE f.kind = "status" ->
            IF f.body.json /\ ~f.body.valid THEN BodyUnusable
            ELSE errorMessage(f)
      [] f.kind = "network" -> <<"fetch failed">>
      [] f.kind = "syntax" -> syntaxErrorMessage(f.body.raw)
      [] f.kind = "tokenMissing" -> <<"AUTH_VENDOR: token missing">>

\* The credentials of a run: the first run holds vin.a, the second vin.b
RunCredentials(r) == IF r = 1 THEN vin.a ELSE vin.b

\* The event both runs handle, sent under the run's webhook secret
LeakRequest(r) ==
    Request(<<RunCredentials(r).webhookSecret>>,
            Invited(IdV(SrcTenant), IdV("u1"), IdV("u1"), TextV(EmailA)))

LeakInit ==
    /\ Fresh({BaseEnv}, {<<"H">>})
    /\ vin \in {v \in [a : Credentials, b : Credentials, failure : Failures,
                       warm : BOOLEAN] :
                  v.a # v.b}
    /\ vout = <<<<>>, <<>>>>

\* Each run has a process of its own, configured with the run's API key and
\* webhook secret.  Its cache slot is empty, or, when vin.warm, the process
\* has handled an earlier request whose exchange returned the run's token.
\* The second run's process takes the place of the first when the first run
\* has answered
LeakProcess(r) ==
    /\ pc[r] = "idle"
    /\ r = 2 => pc[1] = "done"
    /\ LET c == RunCredentials(r)
       IN  /\ env' = [env EXCEPT !.FRONTEGG_API_KEY = <<c.apiKey>>,
                                 !.FRONTEGG_WEBHOOK_SECRET = <<c.webhookSecret>>]
           /\ vendorTokenCache' =
                 IF vin.warm
                 THEN <<[token |-> c.token,
                         expiresAt |-> now + VENDOR_TOKEN_TTL]>>
                 ELSE <<>>
    /\ Goto(r, "started")
    /\ UNCHANGED <<platformVars, now, req, ev, tenant, refreshAt, calls,
                   parsed, snap, started, harnessVars>>

\* POST is entered in a run
LeakReceive(r) ==
    /\ pc[r] = "started"
    /\ Arrive(r, LeakRequest(r))
    /\ UNCHANGED <<env, platformVars, cacheVars, now, ev, tenant, refreshAt,
                   calls, snap, started, harnessVars>>

\* The catch block: Internal error: ${msg}, status 500
LeakCatch(r, msg) ==
    /\ Respond(r, 500)
    /\ vout' = [vout EXCEPT ![r] = <<"Internal error: ">> \o msg]

\* The operation a run is suspended at
OperationAt(label) == IF label = "exchange" THEN "token" ELSE label

\* One call of the try block in a run.  The exchange stores the token it
\* returns in the cache slot.  Every later call carries the token of the
\* cache slot in its Authorization header, and fetch throws before anything
\* is sent when that value is not valid.  A call other than the failing one
\* is answered 200 and the next one follows (the lookup finds no tenant and
\* the listing shows two members, so that every call is made); after the
\* last one the response is 200 OK
LeakCall(r) ==
    /\ OperationAt(pc[r]) \in Operations
    /\ LET op == OperationAt(pc[r])
           f == vin.failure
           value == headerValueNormalize(Authorization(vendorTokenCache[1].token))
       IN  IF op # "token" /\ ~isValidHeaderValue(value)
           THEN /\ LeakCatch(r, invalidHeaderMessage(value))
                /\ UNCHANGED <<calls, cacheVars>>
           ELSE IF f.op # op
           THEN /\ Log(r, op, 200)
                /\ vendorTokenCache' =
                      IF op = "token"
                      THEN <<[token |-> RunCredentials(r).token,
                              expiresAt |-> refreshAt[r] + VENDOR_TOKEN_TTL]>>
                      ELSE vendorTokenCache
                /\ IF op = "disable"
                   THEN /\ Respond(r, 200)
                        /\ vout' = [vout EXCEPT ![r] = <<"OK">>]
                   ELSE Goto(r, NextOperation(op)) /\ UNCHANGED vout
           ELSE /\ IF f.kind = "network" THEN Log(r, op, f.status)
                   ELSE LogBody(r, op, f.status, f.body)
                /\ LeakCatch(r, thrownMessage(f))
                /\ UNCHANGED cacheVars
    /\ UNCHANGED <<env, platformVars, now, req, ev, tenant, refreshAt, parsed,
                   snap, started, vin>>

\* Parse is the handler's step from the body to getVendorToken's fetch or
\* cache hit
LeakNext ==
    \E r \in Slots : LeakProcess(r) \/ LeakReceive(r) \/ Parse(r) \/ LeakCall(r)

LeakSpec == LeakInit /\ [][LeakNext]_vars

\* C29: two runs that hold different vendor tokens, API keys or webhook
\* secrets, are both answered 500 and met the same upstream statuses and
\* bodies, carry the same response text.
\* Violated: a vendor token that holds a line feed makes the fetch of the
\* first call that carries it throw an error that quotes the Authorization
\* value, and the catch block puts that message in the response.
C29_ErrorTextIgnoresCredentials ==
    (/\ pc[1] = "done" /\ pc[2] = "done"
     /\ resp[1] = 500 /\ resp[2] = 500
     /\ calls[1] = calls[2])
    => vout[1] = vout[2]

----------------------------------------------------------------------------
(* The order of a request's outbound calls *)

\* Position of an operation in the pipeline of the try block
Rank(op) ==
    CASE op = "token" -> 1
      [] op = "find" -> 2
      [] op = "create" -> 3
      [] op = "assign" -> 4
      [] op = "add" -> 5
      [] op = "remove" -> 6
      [] op = "list" -> 7
      [] op = "disable" -> 8

\* The operations that may directly precede an operation in a request's log
Before(op) ==
    CASE op = "token" -> {}
      [] op = "find" -> {"token"}
      [] op = "create" -> {"find"}
      [] op = "assign" -> {"find", "create"}
      [] op = "add" -> IF TruthyId(env.DEFAULT_APP_ID) THEN {"assign"}
                       ELSE {"find", "create"}
      [] op = "remove" -> {"add"}
      [] op = "list" -> {"remove"}
      [] op = "disable" -> {"list"}

\* The call got an answer its wrapper returns on
Expected(c) ==
    Tolerated(c) /\ ~(c.op = "token" /\ c.body = <<NoToken>>)

\* A request's log follows the pipeline: operations in pipeline order, each
\* at most once, none of the steps between two calls left out, nothing after
\* a call that got an unexpected answer, and that request answered 500
InPipelineOrder(r) ==
    /\ \A i, j \in 1..Len(calls[r]) :
          i < j => Rank(calls[r][i].op) < Rank(calls[r][j].op)
    /\ \A i \in 2..Len(calls[r]) :
          /\ calls[r][i - 1].op \in Before(calls[r][i].op)
          /\ Expected(calls[r][i - 1])
    /\ (calls[r] # <<>> /\ ~Expected(LastCall(r)))
       => pc[r] = "done" /\ resp[r] = 500

\* C30 as stated: the log is a prefix of token, lookup, [create], [assign],
\* add, remove, listing, [disable]: it follows the pipeline and opens with
\* the credential exchange.
\* Violated: a request that is handed the cached token issues no exchange
\* call, and its log opens with the lookup.
C30_CallsFormPrefix ==
    \A r \in Slots :
        /\ InPipelineOrder(r)
        /\ calls[r] # <<>> => calls[r][1].op = "token"

\* C30 amended: the log is a prefix of [token], lookup, [create], [assign],
\* add, remove, listing, [disable], where the exchange call is left out
\* when the token comes from the cache.
C30_CallsFormPrefixAfterToken ==
    \A r \in Slots :
        /\ InPipelineOrder(r)
        /\ calls[r] # <<>> => calls[r][1].op \in {"token", "find"}

\* C30 witness: a request answered 200 went through lookup, assignment,
\* add, removal, listing and disable on a cached token
C30_Witness ==
    \E r \in Slots :
        /\ pc[r] = "done" /\ resp[r] = 200
        /\ [i \in 1..Len(calls[r]) |-> calls[r][i].op] =
              <<"find", "assign", "add", "remove", "list", "disable">>

----------------------------------------------------------------------------
(* Concurrent requests *)

\* The request's creation call was answered with success
CreatedTenant(r) ==
    \E i \in CallsOf(r, "create") : Ok(calls[r][i].status)

\* C31: when two requests in flight have both created a tenant for the same
\* name (each lookup having returned nothing), the platform holds two
\* distinct tenants of that name, one per request.
C31_BothCreateSameName ==
    \A r1, r2 \in Slots :
        (/\ r1 # r2
         /\ CreatedTenant(r1) /\ CreatedTenant(r2)
         /\ tenantNameOf(ev[r1]) = tenantNameOf(ev[r2]))
        => /\ tenant[r1] # tenant[r2]
           /\ {tenant[r1], tenant[r2]} \subseteq DOMAIN tenants
           /\ tenants[tenant[r1]] = tenantNameOf(ev[r1])
           /\ tenants[tenant[r2]] = tenants[tenant[r1]]

\* C31 witness: two requests in flight resolved the same name, both lookups
\* returned nothing, both created, and two tenants carry the name
C31_Witness ==
    \E r1, r2 \in Slots :
        /\ r1 # r2
        /\ CreatedTenant(r1) /\ CreatedTenant(r2)
        /\ tenantNameOf(ev[r1]) = tenantNameOf(ev[r2])
        /\ \E t1, t2 \in DOMAIN tenants \ {SrcTenant} :
              t1 # t2 /\ tenants[t1] = tenants[t2]

\* Statuses of an operation that the platform's state does not dictate
FaultsOf(op) ==
    CASE op = "token" -> AuthFaults
      [] op = "find" -> FindFaults
      [] op = "create" -> CreateFaults
      [] op = "assign" -> AssignFaults
      [] op = "add" -> AddFaults
      [] op = "remove" -> RemoveFaults
      [] op = "list" -> ListFaults
      [] op = "disable" -> DisableFaults

\* Every call of the request was answered as the platform's state dictates
Undisturbed(r) ==
    \A i \in 1..Len(calls[r]) :
        /\ calls[r][i].status \notin FaultsOf(calls[r][i].op)
        /\ ~(calls[r][i].op = "token" /\ calls[r][i].body = <<NoToken>>)

\* The platform after one undisturbed handling of event e for user u, from
\* the platform the process starts with
AfterSingleHandling(e, u) ==
    LET name == tenantNameOf(e)
        exists == Contains(tenants[SrcTenant], name)
        target == IF exists THEN SrcTenant ELSE IdPool[1]
    IN  [tenants |-> [t \in {SrcTenant, target} |->
                        IF t = SrcTenant THEN tenants[SrcTenant] ELSE name],
         member |-> [t \in AllTenantIds |->
                        IF t = SrcTenant THEN Users \ {u}
                        ELSE IF t = target THEN {u} ELSE {}],
         disabled |-> [t \in AllTenantIds |-> {}]]

\* C32: when the only two requests of a run carried the same event, were
\* handled concurrently and met no disturbed call, both are answered 200
\* and tenants, memberships and disabled users are those one handling of
\* the event leaves.
\* Violated: both lookups can return nothing before either creation, which
\* leaves two tenants of the same name with the user a member of both.
C32_SameEventRaceBenign ==
    \A r1, r2 \in Slots :
        (/\ r1 # r2
         /\ started = 2
         /\ pc[r1] = "done" /\ pc[r2] = "done"
         /\ req[r1] = req[r2]
         /\ PassedFilters(r1) /\ TruthyId(ev[r1].userId)
         /\ Undisturbed(r1) /\ Undisturbed(r2))
        => /\ resp[r1] = 200 /\ resp[r2] = 200
           /\ LET single == AfterSingleHandling(ev[r1], UserOf(r1))
              IN  /\ tenants = single.tenants
                  /\ member = single.member
                  /\ disabled = single.disabled

----------------------------------------------------------------------------
(* getVendorToken called concurrently; every exchange issues a new token *)

\* The tokens the credential exchange hands out, in the order it issues them
TokenPool == <<"tokA", "tokB", "tokC", "tokD", "tokE">>

\* History: the sessions refreshes stored and the tokens calls returned
Stored(r, tok, exp) == [kind |-> "store", by |-> r, token |-> tok, expiresAt |-> exp]
Returned(r, tok) == [kind |-> "return", by |-> r, token |-> tok, expiresAt |-> 0]

AcquireInit ==
    /\ Fresh({BaseEnv, [BaseEnv EXCEPT !.FRONTEGG_API_KEY = <<>>]}, {<<"H">>})
    /\ vin = <<>>
    /\ vout = <<>>

\* Lines 313-327: the cached token is returned, or the exchange is started
AcquireStart(r) ==
    /\ pc[r] = "idle"
    /\ started < MaxAcquires
    /\ started' = started + 1
    /\ IF vendorTokenCache # <<>> /\ vendorTokenCache[1].expiresAt > now
       THEN /\ Respond(r, 200)
            /\ vout' = Append(vout, Returned(r, vendorTokenCache[1].token))
            /\ UNCHANGED refreshAt
       ELSE IF ~TruthyId(env.FRONTEGG_CLIENT_ID) \/ ~TruthyId(env.FRONTEGG_API_KEY)
       THEN /\ Respond(r, 500)
            /\ UNCHANGED <<refreshAt, vout>>
       ELSE /\ Goto(r, "exchange")
            /\ refreshAt' = [refreshAt EXCEPT ![r] = now]
            /\ UNCHANGED vout
    /\ UNCHANGED <<env, platformVars, cacheVars, now, req, ev, tenant, calls,
                   parsed, snap, vin>>

\* Mutant: token and expiry are stored in two steps, and the expiry of the
\* session being replaced is kept
AcquireFinish_KeepExpiry(r) ==
    /\ pc[r] = "exchange"
    /\ LET tok == TokenPool[Cardinality({i \in 1..Len(vout) : vout[i].kind = "store"}) + 1]
           exp == refreshAt[r] + VENDOR_TOKEN_TTL
       IN  /\ vendorTokenCache' =
                 <<[token |-> tok,
                    expiresAt |-> IF vendorTokenCache # <<>>
                                  THEN vendorTokenCache[1].expiresAt ELSE exp]>>
           /\ vout' = vout \o <<Stored(r, tok, exp), Returned(r, tok)>>
           /\ Respond(r, 200)
    /\ UNCHANGED <<env, platformVars, now, req, ev, tenant, refreshAt, calls,
                   parsed, snap, started, vin>>

\* Lines 328-339: the exchange is answered; a failure throws and stores
\* nothing, a success stores the session as a whole and returns its token
AcquireFinish(r) ==
    /\ pc[r] = "exchange"
    /\ \/ /\ Respond(r, 500)
          /\ UNCHANGED <<cacheVars, vout>>
       \/ LET tok == TokenPool[Cardinality({i \in 1..Len(vout) : vout[i].kind = "store"}) + 1]
              exp == refreshAt[r] + VENDOR_TOKEN_TTL
          IN  /\ vendorTokenCache' = <<[token |-> tok, expiresAt |-> exp]>>
              /\ vout' = vout \o <<Stored(r, tok, exp),
                                   Returned(r, vendorTokenCache'[1].token)>>
              /\ Respond(r, 200)
    /\ UNCHANGED <<env, platformVars, now, req, ev, tenant, refreshAt, calls,
                   parsed, snap, started, vin>>

\* The caller goes on
AcquireDone(r) ==
    /\ pc[r] = "done"
    /\ pc' = [pc EXCEPT ![r] = "idle"]
    /\ resp' = [resp EXCEPT ![r] = 0]
    /\ refreshAt' = [refreshAt EXCEPT ![r] = 0]
    /\ UNCHANGED <<env, platformVars, cacheVars, now, req, ev, tenant, calls,
                   parsed, snap, started, harnessVars>>

AcquireNext ==
    \/ \E r \in Slots : AcquireStart(r) \/ AcquireFinish(r) \/ AcquireDone(r)
    \/ Tick

AcquireSpec == AcquireInit /\ [][AcquireNext]_vars

\* Positions of the history at which a session was stored
Stores == {i \in 1..Len(vout) : vout[i].kind = "store"}

\* C33: the cache slot is empty until a refresh stores a session and from
\* then on holds the token and the expiry of the last store, both of the
\* same refresh; and every token a call returned had been stored by a
\* successful exchange before.
C33_LastWriterWinsWhole ==
    /\ Stores = {} <=> vendorTokenCache = <<>>
    /\ Stores # {} =>
          LET last == vout[Max(Stores)]
          IN  vendorTokenCache =
                 <<[token |-> last.token, expiresAt |-> last.expiresAt]>>
    /\ \A i \in 1..Len(vout) :
          vout[i].kind = "return"
          => \E j \in Stores : j < i /\ vout[j].token = vout[i].token

\* C33 witness: two refreshes were in flight together, started at different
\* instants, and the one that started first stored last
C33_Witness ==
    \E i, j \in Stores :
        /\ i < j
        /\ vout[i].by # vout[j].by
        /\ vout[j].expiresAt < vout[i].expiresAt
        /\ vendorTokenCache[1].token = vout[j].token

----------------------------------------------------------------------------
(* Properties of the final handler, continued *)

\* C34: an exchange answered with a non-success status or without a token
\* ends its request with 500, as the only call of the request, and leaves
\* the cache slot as it was; so does a request that needs a refresh when
\* client id or API key is not configured, without any call.
C34_FailedAcquireIsFatal ==
    /\ [](\A r \in Slots :
             /\ \A i \in CallsOf(r, "token") :
                   ~Expected(calls[r][i])
                   => Len(calls[r]) = 1 /\ pc[r] = "done" /\ resp[r] = 500
             /\ ~CredentialsConfigured
                => /\ calls[r] = <<>>
                   /\ vendorTokenCache = <<>>
                   /\ pc[r] = "done" /\ PassedFilters(r) => resp[r] = 500)
    /\ [][\A r \in Slots :
             (pc[r] = "exchange" /\ pc'[r] = "done")
             => /\ resp'[r] = 500
                /\ vendorTokenCache' = vendorTokenCache
                /\ UNCHANGED platformVars]_vars

\* C34 witness: the refresh of an expired session failed with 401, the
\* request was answered 500 after that one call, and the expired session is
\* still in the slot
C34_Witness ==
    \E r \in Slots :
        /\ pc[r] = "done" /\ resp[r] = 500
        /\ Len(calls[r]) = 1
        /\ calls[r][1].op = "token" /\ calls[r][1].status = 401
        /\ vendorTokenCache # <<>>
        /\ vendorTokenCache[1].expiresAt <= now

----------------------------------------------------------------------------
(* The membership oracle applied to the answers a listing may get *)

\* JSON answers: an array of items; an object with or without an items
\* array and with any of the numeric fields total, totalCount, count,
\* recordsTotal; a value that is neither (null, a string)
ListingAnswers ==
    {[shape |-> "array", items |-> <<n>>, totals |-> {}] : n \in 0..2}
    \cup {[shape |-> "object", items |-> it, totals |-> ts] :
             it \in {<<>>, <<0>>, <<1>>, <<2>>}, ts \in SUBSET {0, 1, 2, 5}}
    \cup {[shape |-> "other", items |-> <<>>, totals |-> {}]}

OracleInit ==
    /\ Fresh({BaseEnv}, {<<"H">>})
    /\ vin \in [tenantId : {"t1", "t2"}, status : {200},
                payload : ListingAnswers]
               \cup [tenantId : {"t1", "t2"}, status : ListFaults,
                     payload : {[shape |-> "other", items |-> <<>>,
                                 totals |-> {}]}]
    /\ vout = <<>>

\* isSecondOrLaterUserInTenant(token, vin.tenantId): the listing is
\* requested, the platform answers it with vin.status and vin.payload, and
\* the oracle throws or decides
OracleApply ==
    /\ vout = <<>>
    /\ LogList(1, vin.tenantId, vin.status,
               IF Ok(vin.status) THEN <<vin.payload>> ELSE <<>>)
    /\ vout' = <<[thrown |-> ~Ok(vin.status),
                  value |-> Ok(vin.status)
                            /\ isSecondOrLaterUserInTenant(vin.payload)]>>
    /\ UNCHANGED <<env, platformVars, cacheVars, now, pc, req, ev, tenant,
                   refreshAt, resp, parsed, snap, started, vin>>

OracleNext == OracleApply

OracleSpec == OracleInit /\ [][OracleNext]_vars

\* C35: the oracle issues exactly one call, a listing under the tenant id it
\* was given that asks for at most 2 records, and when the listing is
\* answered it returns "a total is at least 2" when the answer exposes a
\* numeric total or count, otherwise "at least 2 items were returned" when
\* it carries items, and FALSE when it carries neither.
C35_OracleDecision ==
    vout # <<>>
    => /\ Len(calls[1]) = 1
       /\ calls[1][1].op = "list"
       /\ calls[1][1].request.tenant = vin.tenantId
       /\ calls[1][1].request.limit <= 2
       /\ ~vout[1].thrown
          => vout[1].value =
                IF vin.payload.shape = "object" /\ vin.payload.totals # {}
                THEN \E n \in vin.payload.totals : n >= 2
                ELSE IF vin.payload.items # <<>>
                THEN vin.payload.items[1] >= 2
                ELSE FALSE

\* C35 witness: one listing was requested for tenant t2 with limit 2; it
\* returned one item and exposes a total of 5, and was decided by the total
C35_Witness ==
    /\ vout # <<>>
    /\ ~vout[1].thrown /\ vout[1].value
    /\ vin.tenantId = "t2"
    /\ Len(calls[1]) = 1
    /\ calls[1][1].request = [tenant |-> "t2", offset |-> 0, limit |-> 2]
    /\ vin.payload.shape = "object"
    /\ vin.payload.items = <<1>>
    /\ vin.payload.totals = {5}

\* The request has resolved its tenant and got past the assignment step
PastAssignment(r) ==
    \/ pc[r] \in {"add", "remove", "list", "disable"}
    \/ CallsOf(r, "add") # {}
    \/ pc[r] = "done" /\ resp[r] = 200 /\ PassedFilters(r)

\* C36: with a default application configured, a request that got past the
\* assignment step made exactly one assignment call, for its resolved
\* tenant, answered with success or 409, and nothing came between it and
\* the add; an assignment answered otherwise is the last call of a request
\* answered 500; without a default application no assignment call is made.
C36_AssignmentStep ==
    \A r \in Slots :
        /\ ~TruthyId(env.DEFAULT_APP_ID) => CallsOf(r, "assign") = {}
        /\ (TruthyId(env.DEFAULT_APP_ID) /\ PastAssignment(r))
           => /\ Cardinality(CallsOf(r, "assign")) = 1
              /\ tenant[r] \in assigned
        /\ \A i \in CallsOf(r, "assign") :
              IF Tolerated(calls[r][i])
              THEN IF i = Len(calls[r])
                   THEN IF TruthyId(ev[r].userId)
                        THEN pc[r] = "add" /\ resp[r] = 0
                        ELSE pc[r] = "done" /\ resp[r] = 200
                   ELSE calls[r][i + 1].op = "add"
              ELSE /\ i = Len(calls[r])
                   /\ pc[r] = "done" /\ resp[r] = 500

\* C36 witness: a request whose assignment was answered 409 went on to the
\* add and was answered 200
C36_Witness ==
    \E r \in Slots :
        /\ pc[r] = "done" /\ resp[r] = 200
        /\ \E i \in CallsOf(r, "assign") :
              /\ calls[r][i].status = 409
              /\ i < Len(calls[r])
              /\ calls[r][i + 1].op = "add"

----------------------------------------------------------------------------
(* Properties of the handler of src/app, continued *)

\* C37: an authenticated body that is JSON but carries no event kind - a
\* value that is not an object, or an object without a string key - is
\* answered 204.
\* Violated by the handler of src/app: for the JSON value null, reading
\* event.key throws outside the try block and the request fails with 500.
C37_MalformedIsIgnored ==
    (/\ vout # <<>>
     /\ routeVerifyWebhook(vin[1], env.FRONTEGG_WEBHOOK_SECRET)
     /\ vin[2].parses
     /\ vin[2].t # "obj" \/ vin[2].key.t # "str")
    => vout[1] = 204

----------------------------------------------------------------------------
(* Termination *)

Statuses == {200, 204, 400, 401, 500}

\* C38: when every external call returns, a request that entered the handler
\* is eventually answered with one of 200, 204, 400, 401, 500; a response
\* exists exactly when the handler has returned, and it is never replaced by
\* a second one.
C38_EveryRequestAnswered ==
    /\ \A r \in Slots :
           (pc[r] # "idle") ~> (pc[r] = "done" /\ resp[r] \in Statuses)
    /\ [](\A r \in Slots : (resp[r] # 0) <=> (pc[r] = "done"))
    /\ [][\A r \in Slots :
              pc[r] = "done" =>
                  \/ pc'[r] = "idle"
                  \/ pc'[r] = "done" /\ resp'[r] = resp[r]]_vars

\* Both requests in flight have been answered, one of them after the whole
\* sequence of external calls and the other after a failed call
C38_Witness ==
    /\ pc[1] = "done" /\ pc[2] = "done"
    /\ \E r \in Slots : resp[r] = 200 /\ CallsOf(r, "disable") # {}
    /\ \E r \in Slots : resp[r] = 500 /\ calls[r] # <<>>

----------------------------------------------------------------------------
(* The tenant the resolver hands to the add step *)

\* C39: whenever a request's add call has been accepted (201, or 409 for a
\* user who is a member already), the tenant it named carries exactly the
\* requested name (declared or derived).
\* Violated: findTenantByName takes the first item of a free-text lookup
\* without comparing its name, so a tenant whose name merely contains the
\* requested one is used.
C39_AddedToNamedTenant ==
    \A r \in Slots :
        (\E i \in CallsOf(r, "add") : calls[r][i].status \in {201, 409})
        => tenants[tenant[r]] = tenantNameOf(ev[r])

----------------------------------------------------------------------------
(* The earlier signed-up handler that has a removal step *)

MaxEarlierRequests == 2   \* deliveries per behaviour to the earlier handler

\* Its early returns between extractEvent and the try block: 0 when the
\* event goes on to reconciliation, else the response status.  For a kind
\* other than signedUp it evaluates new Response('Ignored', { status: 204 }),
\* which throws because a response of status 204 must not carry a body, and
\* the framework answers 500
earlierFilterStatus(e, environment) ==
    IF e.key # SignedUpKey THEN 500
    ELSE IF ~TruthyText(e.email) THEN 200
    ELSE IF DRY_RUN(environment) THEN 200
    ELSE 0

SignedUp(v) == Body(TopShape(v))
SignedUpNested(v) == Body(NestedShape(v))

EventOf(kind, userId, ctxUserId, email) ==
    [kind |-> kind, userId |-> userId, ctxUserId |-> ctxUserId,
     email |-> email, tenantName |-> NoText]

\* Deliveries to the earlier handler
EarlierRequests ==
    {Request(<<"k1">>, b) :
        b \in { SignedUp(EventOf(IdV(SignedUpKey), IdV("u1"), NoId, TextV(EmailA))),
                SignedUpNested(EventOf(IdV(SignedUpKey), IdV("u2"), NoId,
                                       TextV(EmailB))),
                SignedUp(EventOf(IdV(SignedUpKey), NoId, NoId, TextV(EmailA))),
                SignedUp(EventOf(IdV(SignedUpKey), IdV("u1"), NoId, NoText)),
                SignedUp(EventOf(IdV(InvitedKey), IdV("u1"), NoId,
                                 TextV(EmailA))),
                BadJson }}
    \cup {Request(<<"k2">>,
                  SignedUp(EventOf(IdV(SignedUpKey), IdV("u1"), NoId,
                                   TextV(EmailA))))}

EarlierEnvs ==
    { BaseEnv,
      [BaseEnv EXCEPT !.DEFAULT_SRC_TENANT_ID = <<>>],
      [BaseEnv EXCEPT !.DEFAULT_SRC_TENANT_ID = <<>>, !.DEFAULT_APP_ID = <<>>],
      [BaseEnv EXCEPT !.DEFAULT_SRC_TENANT_ID = <<>>, !.DRY_RUN = <<"1">>],
      [BaseEnv EXCEPT !.DEFAULT_SRC_TENANT_ID = <<>>,
                      !.FRONTEGG_API_KEY = <<>>] }

EarlierInit ==
    /\ Fresh(EarlierEnvs, {<<"H">>, <<"A">>})
    /\ vin = <<<<>>, <<>>>>
    /\ vout = <<>>

\* POST is entered: verifySecret, whose text is that of the final handler
EarlierReceive == Deliver(1, EarlierRequests, MaxEarlierRequests)

\* readJson, extractEvent, the early returns, and getVendorToken up to its
\* fetch (this handler keeps no token cache)
EarlierParse ==
    /\ pc[1] = "parse"
    /\ parsed' = [parsed EXCEPT ![1] = TRUE]
    /\ IF ~req[1].body.parses
       THEN Respond(1, 400) /\ UNCHANGED ev
       ELSE LET e == extractEventEarlier(req[1].body.json)
                st == earlierFilterStatus(e, env)
            IN  /\ ev' = [ev EXCEPT ![1] = e]
                /\ IF st # 0 THEN Respond(1, st)
                   ELSE IF ~TruthyId(env.FRONTEGG_CLIENT_ID)
                           \/ ~TruthyId(env.FRONTEGG_API_KEY)
                   THEN Respond(1, 500)
                   ELSE Goto(1, "exchange")
    /\ UNCHANGED <<env, platformVars, cacheVars, now, req, tenant, refreshAt,
                   calls, snap, started, harnessVars>>

\* getVendorToken from the exchange's response on
EarlierToken ==
    /\ pc[1] = "exchange"
    /\ \/ /\ Log(1, "token", 200)
          /\ Goto(1, "find")
       \/ /\ LogBody(1, "token", 200, NoToken)
          /\ Respond(1, 500)
       \/ /\ \E st \in AuthFaults : Log(1, "token", st)
          /\ Respond(1, 500)
    /\ UNCHANGED <<env, platformVars, cacheVars, now, req, ev, tenant,
                   refreshAt, parsed, snap, started, harnessVars>>

\* After addUserToTenantById: if (srcTenantId) { remove } else warn; 200
AfterEarlierAdd ==
    IF TruthyId(env.DEFAULT_SRC_TENANT_ID) THEN Goto(1, "remove")
    ELSE Respond(1, 200)

\* Mutant: without a configured source tenant the request is refused
EarlierAdd_NeedsSource ==
    /\ pc[1] = "add"
    /\ LET u == ev[1].userId[1]
           t == tenant[1]
       IN  \/ /\ \E st \in AddFaults : Log(1, "add", st)
              /\ Respond(1, 500)
              /\ UNCHANGED <<member, firstJoiner>>
           \/ /\ u \in member[t]
              /\ Log(1, "add", 409)
              /\ IF TruthyId(env.DEFAULT_SRC_TENANT_ID) THEN Goto(1, "remove")
                 ELSE Respond(1, 500)
              /\ UNCHANGED <<member, firstJoiner>>
           \/ /\ u \notin member[t]
              /\ Log(1, "add", 201)
              /\ PlatformAdd(t, u)
              /\ IF TruthyId(env.DEFAULT_SRC_TENANT_ID) THEN Goto(1, "remove")
                 ELSE Respond(1, 500)
    /\ UNCHANGED <<env, tenants, disabled, assigned, cacheVars, now, req, ev,
                   tenant, refreshAt, parsed, snap, started, harnessVars>>

\* addUserToTenantById, then the choice on DEFAULT_SRC_TENANT_ID
EarlierAdd ==
    /\ pc[1] = "add"
    /\ LET u == ev[1].userId[1]
           t == tenant[1]
       IN  \/ /\ \E st \in AddFaults : Log(1, "add", st)
              /\ Respond(1, 500)
              /\ UNCHANGED <<member, firstJoiner>>
           \/ /\ u \in member[t]
              /\ Log(1, "add", 409)
              /\ AfterEarlierAdd
              /\ UNCHANGED <<member, firstJoiner>>
           \/ /\ u \notin member[t]
              /\ Log(1, "add", 201)
              /\ PlatformAdd(t, u)
              /\ AfterEarlierAdd
    /\ UNCHANGED <<env, tenants, disabled, assigned, cacheVars, now, req, ev,
                   tenant, refreshAt, parsed, snap, started, harnessVars>>

\* removeUserFromTenant on the source tenant, then 200
EarlierRemove ==
    /\ pc[1] = "remove"
    /\ LET u == ev[1].userId[1]
           src == env.DEFAULT_SRC_TENANT_ID[1]
       IN  \/ /\ \E st \in RemoveFaults : Log(1, "remove", st)
              /\ Respond(1, 500)
              /\ UNCHANGED <<member, disabled>>
           \/ /\ u \notin member[src]
              /\ Log(1, "remove", 404)
              /\ Respond(1, 200)
              /\ UNCHANGED <<member, disabled>>
           \/ /\ u \in member[src]
              /\ Log(1, "remove", 200)
              /\ member' = [member EXCEPT ![src] = @ \ {u}]
              /\ disabled' = [disabled EXCEPT ![src] = @ \ {u}]
              /\ Respond(1, 200)
    /\ UNCHANGED <<env, tenants, assigned, firstJoiner, cacheVars, now, req, ev,
                   tenant, refreshAt, parsed, snap, started, harnessVars>>

\* findTenantByName, createTenant and ensureAppAssigned of this handler have
\* the text of the final handler's
EarlierNext ==
    \/ EarlierReceive \/ EarlierParse \/ EarlierToken
    \/ Find(1) \/ Create(1) \/ Assign(1)
    \/ EarlierAdd \/ EarlierRemove
    \/ Close(1)

EarlierSpec == EarlierInit /\ [][EarlierNext]_vars

\* C40: in the signed-up flow, an authenticated signed-up event that names a
\* user and an email, handled while DEFAULT_SRC_TENANT_ID is not set, the
\* API credentials are set, dry-run mode is off and no call fails, is
\* answered 200 after an accepted add call to the target tenant and without
\* a remove call, and the user is still a member of the holding tenant.
C40_SignedUpWithoutSource ==
    (/\ pc[1] = "done"
     /\ parsed[1]
     /\ req[1].body.parses
     /\ ~InvalidHeader(req[1].header, env.FRONTEGG_WEBHOOK_SECRET)
     /\ ev[1].key = SignedUpKey
     /\ TruthyId(ev[1].userId)
     /\ TruthyText(ev[1].email)
     /\ ~TruthyId(env.DEFAULT_SRC_TENANT_ID)
     /\ TruthyId(env.FRONTEGG_API_KEY)
     /\ ~DRY_RUN(env)
     /\ NoFault(1))
    => /\ resp[1] = 200
       /\ \E i \in CallsOf(1, "add") : calls[1][i].status \in {201, 409}
       /\ CallsOf(1, "remove") = {}
       /\ UserOf(1) \in member[tenant[1]]
       /\ UserOf(1) \in member[SrcTenant]

\* C40 witness: no source tenant is configured, the signed-up user was added
\* to a tenant other than the holding one, no removal was issued, the
\* response is 200 and the user is a member of both tenants
C40_Witness ==
    /\ pc[1] = "done" /\ resp[1] = 200
    /\ ev[1].key = SignedUpKey
    /\ env.DEFAULT_SRC_TENANT_ID = <<>>
    /\ \E i \in CallsOf(1, "add") : calls[1][i].status = 201
    /\ CallsOf(1, "remove") = {}
    /\ tenant[1] # SrcTenant
    /\ UserOf(1) \in member[tenant[1]]
    /\ UserOf(1) \in member[SrcTenant]

====
